---- MODULE Spec2Model ----
(***************************************************************************)
(* A model of the Trading Economics scraper: the politeness-aware fetch    *)
(* client of scraper.py (robots.txt cache, per-host rate limiter, bounded  *)
(* retries) and the drivers of __main__.py and scraper.py built on it.     *)
(*                                                                         *)
(* Time is counted in units of 0.5 s, the value of backoff_factor, so that *)
(* every duration of config.py is a whole number of units.                 *)
(***************************************************************************)
EXTENDS Integers, Sequences, FiniteSets, TLC

VARIABLES
    now,          \* the clock read by time.time() and datetime.now()
    cache,        \* RobotsCache._cache: host -> RobotsTxt (present = FALSE: no entry)
    lastRequest,  \* RateLimiter._last_request: host -> time (0: no entry, the .get default)
    pc,           \* per task: where its scrape() coroutine is suspended
    attempt,      \* per task: the attempt parameter of _request_with_retry
    wakeAt,       \* per task: when the asyncio.sleep it is suspended in is due
    sentAt,       \* per task: when the request it is suspended in was sent
    call,         \* per task: what the current (or last finished) scrape() call did
    prev,         \* per task: the record of the scrape() call before the current one
    nCalls,       \* per task: number of scrape() calls started
    leaveLog,     \* per host: the (task, time) of every return of RateLimiter.wait
    robotsReqs,   \* per host: number of robots.txt requests sent
    \* a robots.txt file put to a question, apart from any client
    fileText,     \* the text of the file
    askedPath,    \* the path asked about
    filePolicy,   \* the RobotsTxt that _parse_robots_content made of it
    answer,       \* << >>, or <<b>> when is_allowed returned b
    \* the drivers: run_pipeline of __main__.py and orchestrate of scraper.py
    driver,       \* "none", or the driver that was called
    stage,        \* where the driver is: "idle", the step it is suspended in, "done"
    marketTasks,  \* fetch_all_markets: per market key, the state of its task
    returned,     \* fetch_all_markets: per market key, what its task returned
    ran,          \* per category: what its fetch and its parser did in this run
    errors,       \* the local list errors of the driver
    outErrors,    \* output.errors (run_pipeline), data["metadata"]["errors"] (orchestrate)
    output,       \* run_pipeline: the category fields of the TradingEconomicsOutput
    country_map,  \* run_pipeline: the local dict country_map
    data,         \* orchestrate: the category keys of the dict data
    exitStatus,   \* << >>, or <<n>> when the process of main() has ended with status n
    \* a function of the extraction engine called on its own
    calledFn,     \* the function
    calledArg,    \* its argument
    callResult,   \* << >>, or <<r>> when the call has returned or raised r
    \* the context of the ScrapingClient, and scrape_with_fallback
    clientOpen,   \* whether self._client is set: __aenter__ has run, __aexit__ not
    fallback,     \* "none", or where the call of scrape_with_fallback is
    loaded        \* the URLs page.goto of scrape_with_playwright was called with

clientVars == <<now, cache, lastRequest, pc, attempt, wakeAt, sentAt, call, prev,
                nCalls, leaveLog, robotsReqs>>
robotsVars == <<fileText, askedPath, filePolicy, answer>>
pipelineVars == <<driver, stage, marketTasks, returned, ran, errors, outErrors, output,
                  country_map, data, exitStatus>>
callVars == <<calledFn, calledArg, callResult>>
contextVars == <<clientOpen, fallback, loaded>>
vars == <<clientVars, robotsVars, pipelineVars, callVars, contextVars>>

\* what the steps of the fetch client leave alone
besideClient == <<robotsVars, pipelineVars, callVars, contextVars>>

\* what the steps of the drivers leave alone
besidePipeline == <<clientVars, robotsVars, callVars, contextVars>>

---------------------------------------------------------------------------
(* Configuration: config.py, and the defaults of scraper.py.               *)

RATE_LIMIT_DELAY == 10
MAX_RETRIES == 3
BACKOFF_FACTOR == 1
CACHE_TTL == 7200

(* Bounds of the model.                                                    *)
NumTasks == 3
MaxFetches == 2
Horizon == 11
MaxLatency == 1
MaxLate == 1

Tasks == 1..NumTasks
Hosts == {"a", "b"}

\* time.time() counts from the epoch: the first request to a host never waits.
StartTime == RATE_LIMIT_DELAY
MaxTime == StartTime + Horizon

---------------------------------------------------------------------------
(* Text: a string is a sequence of characters.                             *)

Slash == <<"/">>
Private == <<"/", "p", "r", "i", "v">>
PrivateX == Private \o <<"/", "x">>
PrivateUp == <<"/", "P", "r", "i", "v">>
Forex == <<"/", "f", "x">>
EmptyText == << >>

LowerLetters ==
    <<"a", "b", "c", "d", "e", "f", "g", "h", "i", "j", "k", "l", "m",
      "n", "o", "p", "q", "r", "s", "t", "u", "v", "w", "x", "y", "z">>

UpperLetters ==
    <<"A", "B", "C", "D", "E", "F", "G", "H", "I", "J", "K", "L", "M",
      "N", "O", "P", "Q", "R", "S", "T", "U", "V", "W", "X", "Y", "Z">>

\* the place of a letter in its alphabet, 0 for what is not in it
LetterIndex(letters, c) ==
    IF \E i \in DOMAIN letters : letters[i] = c
    THEN CHOOSE i \in DOMAIN letters : letters[i] = c
    ELSE 0

\* str.lower() and str.upper() on one character
LowerChar(c) ==
    IF LetterIndex(UpperLetters, c) = 0 THEN c
    ELSE LowerLetters[LetterIndex(UpperLetters, c)]

UpperChar(c) ==
    IF LetterIndex(LowerLetters, c) = 0 THEN c
    ELSE UpperLetters[LetterIndex(LowerLetters, c)]

Lower(s) == [i \in DOMAIN s |-> LowerChar(s[i])]

Upper(s) == [i \in DOMAIN s |-> UpperChar(s[i])]

\* str.startswith
StartsWith(s, p) == Len(p) <= Len(s) /\ SubSeq(s, 1, Len(p)) = p

RECURSIVE LStrip(_)
LStrip(s) == IF s # << >> /\ Head(s) = " " THEN LStrip(Tail(s)) ELSE s

RECURSIVE RStrip(_)
RStrip(s) ==
    IF s # << >> /\ s[Len(s)] = " " THEN RStrip(SubSeq(s, 1, Len(s) - 1)) ELSE s

\* str.strip()
Strip(s) == RStrip(LStrip(s))

---------------------------------------------------------------------------
(* robots.txt: RobotsTxt, _parse_robots_content.                           *)
(* A line of a robots.txt file is [name, value]: the directive before the   *)
(* first colon ("#" for a comment line, "" for a blank one) and the text    *)
(* after it.                                                               *)

\* the policy RobotsTxt() of a host without restrictions; origin (not a field of
\* the code) remembers the file a policy was parsed from, << >> for none
EmptyRobots ==
    [present |-> TRUE, disallowed |-> {}, allowed |-> {}, crawl_delay |-> << >>,
     last_checked |-> 0, origin |-> << >>]

NoRobots == [EmptyRobots EXCEPT !.present = FALSE]

IsAllowedWithAllowOverride(robots, path) ==
    \/ \E allowed_path \in robots.allowed : StartsWith(path, allowed_path)
    \/ ~ \E disallowed_path \in robots.disallowed : StartsWith(path, disallowed_path)

\* RobotsTxt.is_allowed
IsAllowed(robots, path) ==
    ~ \E disallowed_path \in robots.disallowed : StartsWith(path, disallowed_path)

IsDigits(s) == s # << >> /\ \A i \in DOMAIN s : s[i] \in {"0", "1", "2", "5"}

\* str.lower() on the directive names the model uses
LowerName(n) ==
    CASE n = "Disallow" -> "disallow"
      [] n = "DISALLOW" -> "disallow"
      [] n = "Allow" -> "allow"
      [] n = "User-agent" -> "user-agent"
      [] n = "Crawl-delay" -> "crawl-delay"
      [] OTHER -> n

\* the loop body of _parse_robots_content for one line
ParseRobotsLine(acc, raw) ==
    LET name == LowerName(raw.name)
        path == Strip(Lower(raw.value))
    IN  IF name = "" \/ name = "#" THEN acc
        ELSE IF name = "user-agent" THEN acc
        ELSE IF name = "disallow" THEN
            IF path # << >>
            THEN [acc EXCEPT !.disallowed = @ \cup {path}] ELSE acc
        ELSE IF name = "allow" THEN
            IF path # << >>
            THEN [acc EXCEPT !.allowed = @ \cup {path}] ELSE acc
        ELSE IF name = "crawl-delay" THEN
            IF IsDigits(path) THEN [acc EXCEPT !.crawl_delay = path] ELSE acc
        ELSE acc

RECURSIVE ParseRobotsLines(_, _)
ParseRobotsLines(acc, lines) ==
    IF lines = << >> THEN acc
    ELSE ParseRobotsLines(ParseRobotsLine(acc, Head(lines)), Tail(lines))

\* _parse_robots_content
ParseRobotsContent(content) ==
    [ParseRobotsLines(EmptyRobots, content) EXCEPT !.origin = <<content>>]

---------------------------------------------------------------------------
(* The network: what a request can be answered with.                       *)

\* the robots.txt files a host may serve
RobotsFiles ==
    { << >>,
      << [name |-> "User-agent", value |-> <<"*">>],
         [name |-> "Disallow", value |-> <<" ">> \o Private] >>,
      << [name |-> "User-agent", value |-> <<"x">>],
         [name |-> "Allow", value |-> PrivateX],
         [name |-> "Disallow", value |-> Private],
         [name |-> "Crawl-delay", value |-> <<"2">>] >> }

\* status 0 stands for httpx.RequestError: no response at all
NetworkError == 0
RobotsStatuses == {200, 404, 500, NetworkError}
PageStatuses == {200, 404, 429, 503, NetworkError}

\* the URLs a caller may ask for; urlparse splits a URL into netloc and path
Urls ==
    { [host |-> "a", path |-> PrivateX],
      [host |-> "a", path |-> Forex],
      [host |-> "b", path |-> EmptyText] }

---------------------------------------------------------------------------
(* The record of one scrape() call (not state of the code: what the call   *)
(* did, for the properties to speak about).                                *)

Pending == [kind |-> "pending", status |-> 0]
Html == [kind |-> "html", status |-> 200]
RobotsBlocked == [kind |-> "RobotsTxtError", status |-> 0]
RetriesExhausted == [kind |-> "RequestError: failed after retries", status |-> 0]
RequestFailed(status) == [kind |-> "RequestError: HTTP", status |-> status]

\* url: the argument; policy: parse_robots_txt has returned, with a policy parsed
\* from the file origin[1] (origin = << >>: from no file) that disallows the
\* prefixes disallowed; robotsReq: robots.txt requests sent; robotsFailed: the
\* robots.txt request was answered with something else than a 200; rlWaits: calls
\* of RateLimiter.wait; gets: GET attempts; firstGet: the time of the first one;
\* transient, ok, errStatus: the answers that were 5xx or network errors, the
\* answers that were 2xx, the other status received (0: none); sleeps: the backoff
\* sleeps; outcome: what the call returned or raised
NoCall ==
    [url |-> [host |-> "a", path |-> EmptyText], started |-> FALSE,
     policy |-> FALSE, origin |-> << >>, disallowed |-> {},
     robotsReq |-> 0, robotsFailed |-> FALSE, rlWaits |-> 0,
     gets |-> 0, firstGet |-> 0, transient |-> 0, ok |-> 0, errStatus |-> 0,
     sleeps |-> << >>, outcome |-> Pending]

NewCall(u) == [NoCall EXCEPT !.url = u, !.started = TRUE]

---------------------------------------------------------------------------
(* RobotsCache, parse_robots_txt.                                          *)

RobotsCacheGetNoExpiry(host) == cache[host]

\* RobotsCache.get: the entry, or NoRobots when there is none or it has expired
RobotsCacheGet(host) ==
    IF cache[host].present /\ (now - cache[host].last_checked) < CACHE_TTL
    THEN cache[host]
    ELSE NoRobots

RobotsFromResponseStrict(status, content) ==
    IF status = 200 THEN ParseRobotsContent(content)
    ELSE [EmptyRobots EXCEPT !.disallowed = {Slash}]

\* parse_robots_txt, lines 97-109: the policy a robots.txt response gives
RobotsFromResponse(status, content) ==
    IF status = NetworkError THEN EmptyRobots
    ELSE IF status = 404 THEN EmptyRobots
    ELSE IF status # 200 THEN EmptyRobots
    ELSE ParseRobotsContent(content)

---------------------------------------------------------------------------
(* RateLimiter.wait and _request_with_retry, as the steps of scrape().     *)

SleepTimeShort(elapsed) == RATE_LIMIT_DELAY - elapsed - 1

\* RateLimiter.wait, line 179: the argument of asyncio.sleep
SleepTime(elapsed) == RATE_LIMIT_DELAY - elapsed

IsRetryableForcelist(status) == status \in {429, 500, 502, 503, 504}

\* _request_with_retry, line 227
IsRetryable(status) == 500 <= status /\ status < 600

MayRetryOnceLess(a) == a + 1 < MAX_RETRIES

\* _request_with_retry, lines 228 and 237
MayRetry(a) == a < MAX_RETRIES

RECURSIVE Pow2(_)
Pow2(n) == IF n = 0 THEN 1 ELSE 2 * Pow2(n - 1)

BackoffLinear(a) == BACKOFF_FACTOR * (a + 1)

\* _request_with_retry, lines 229 and 238
Backoff(a) == BACKOFF_FACTOR * Pow2(a)

\* self._client.get(url, headers) of _request_with_retry is called
IssueGet(t, c, a) ==
    /\ pc' = [pc EXCEPT ![t] = "get"]
    /\ attempt' = [attempt EXCEPT ![t] = a]
    /\ sentAt' = [sentAt EXCEPT ![t] = now]
    /\ call' = [call EXCEPT ![t] =
                   [c EXCEPT !.gets = @ + 1,
                             !.firstGet = IF a = 0 THEN now ELSE @]]

\* RateLimiter.wait, line 181, and what scrape() does up to the GET
LeaveRateLimiter(t, c) ==
    /\ lastRequest' = [lastRequest EXCEPT ![c.url.host] = now]
    /\ leaveLog' = [leaveLog EXCEPT ![c.url.host] = Append(@, [task |-> t, at |-> now])]
    /\ IssueGet(t, c, 0)

\* RateLimiter.wait, lines 171-179
EnterRateLimiter(t, c) ==
    LET last_time == lastRequest[c.url.host]
        elapsed == now - last_time
        c1 == [c EXCEPT !.rlWaits = @ + 1]
    IN  IF elapsed < RATE_LIMIT_DELAY
        THEN /\ pc' = [pc EXCEPT ![t] = "rl_sleep"]
             /\ wakeAt' = [wakeAt EXCEPT ![t] = now + SleepTime(elapsed)]
             /\ call' = [call EXCEPT ![t] = c1]
             /\ UNCHANGED <<lastRequest, leaveLog, attempt, sentAt>>
        ELSE /\ LeaveRateLimiter(t, c1)
             /\ UNCHANGED wakeAt

\* the scrape() call of task t ends with outcome o
Finish(t, c, o) ==
    /\ pc' = [pc EXCEPT ![t] = "idle"]
    /\ call' = [call EXCEPT ![t] = [c EXCEPT !.outcome = o]]

\* _check_robots_txt, lines 206-210, with the policy parse_robots_txt returned,
\* and scrape(), line 253
CheckRobots(t, c, robots) ==
    LET path == IF c.url.path = EmptyText THEN Slash ELSE c.url.path
        c1 == [c EXCEPT !.policy = TRUE, !.origin = robots.origin,
                        !.disallowed = robots.disallowed]
    IN  IF ~ IsAllowed(robots, path)
        THEN /\ Finish(t, c1, RobotsBlocked)
             /\ UNCHANGED <<lastRequest, leaveLog, attempt, wakeAt, sentAt>>
        ELSE EnterRateLimiter(t, c1)

ClientAlwaysInitialized == TRUE

\* scrape(), line 246: self._client is set
ClientInitialized == clientOpen

\* scrape(url), lines 249-261, up to the first suspension of parse_robots_txt
ScrapeBegin(t, u, limit) ==
    /\ pc[t] = "idle"
    /\ nCalls[t] < limit
    /\ nCalls' = [nCalls EXCEPT ![t] = @ + 1]
    /\ prev' = [prev EXCEPT ![t] = [host |-> call[t].url.host, firstGet |-> call[t].firstGet]]
    /\ LET cached == RobotsCacheGet(u.host)
       IN  IF cached.present
           THEN /\ CheckRobots(t, NewCall(u), cached)
                /\ UNCHANGED <<cache, robotsReqs>>
           ELSE /\ pc' = [pc EXCEPT ![t] = "robots"]
                /\ call' = [call EXCEPT ![t] = [NewCall(u) EXCEPT !.robotsReq = 1]]
                /\ robotsReqs' = [robotsReqs EXCEPT ![u.host] = @ + 1]
                /\ sentAt' = [sentAt EXCEPT ![t] = now]
                /\ UNCHANGED <<cache, lastRequest, leaveLog, attempt, wakeAt>>
    /\ UNCHANGED now

\* scrape(url) is called on a client
ScrapeStart(t, u, limit) ==
    /\ ClientInitialized
    /\ ScrapeBegin(t, u, limit)
    /\ UNCHANGED besideClient

\* the robots.txt request of parse_robots_txt is answered
RobotsResponse(t, status, content) ==
    /\ pc[t] = "robots"
    /\ LET robots == [RobotsFromResponse(status, content) EXCEPT !.last_checked = now]
       IN  /\ cache' = [cache EXCEPT ![call[t].url.host] = robots]
           /\ CheckRobots(t, [call[t] EXCEPT !.robotsFailed = (status # 200)], robots)
    /\ UNCHANGED <<now, prev, nCalls, robotsReqs, besideClient>>

\* the asyncio.sleep of RateLimiter.wait returns
RateLimiterWake(t) ==
    /\ pc[t] = "rl_sleep"
    /\ now >= wakeAt[t]
    /\ LeaveRateLimiter(t, call[t])
    /\ UNCHANGED <<now, cache, wakeAt, prev, nCalls, robotsReqs, besideClient>>

\* what the record of a call notes of an answer to its GET
Answered(c, status) ==
    IF status = NetworkError \/ (500 <= status /\ status <= 599)
    THEN [c EXCEPT !.transient = @ + 1]
    ELSE IF 200 <= status /\ status <= 299 THEN [c EXCEPT !.ok = @ + 1]
    ELSE [c EXCEPT !.errStatus = status]

\* the GET of _request_with_retry is answered
GetResponse(t, status) ==
    /\ pc[t] = "get"
    /\ LET c == Answered(call[t], status)
       IN  IF status # NetworkError /\ 200 <= status /\ status < 300
           THEN /\ Finish(t, c, Html)
                /\ UNCHANGED <<attempt, wakeAt>>
           ELSE IF status = NetworkError \/ IsRetryable(status)
           THEN IF MayRetry(attempt[t])
                THEN /\ pc' = [pc EXCEPT ![t] = "backoff"]
                     /\ wakeAt' = [wakeAt EXCEPT ![t] = now + Backoff(attempt[t])]
                     /\ call' = [call EXCEPT ![t] =
                                    [c EXCEPT !.sleeps = Append(@, Backoff(attempt[t]))]]
                     /\ UNCHANGED attempt
                ELSE /\ Finish(t, c, RetriesExhausted)
                     /\ UNCHANGED <<attempt, wakeAt>>
           ELSE /\ Finish(t, c, RequestFailed(status))
                /\ UNCHANGED <<attempt, wakeAt>>
    /\ UNCHANGED <<now, cache, lastRequest, leaveLog, sentAt, prev, nCalls, robotsReqs,
                   besideClient>>

\* the asyncio.sleep(backoff) of _request_with_retry returns: the recursive call
BackoffWake(t) ==
    /\ pc[t] = "backoff"
    /\ now >= wakeAt[t]
    /\ IssueGet(t, call[t], attempt[t] + 1)
    /\ UNCHANGED <<now, cache, lastRequest, leaveLog, wakeAt, prev, nCalls, robotsReqs,
                   besideClient>>

\* time passes by one unit; a request is answered within MaxLatency of being
\* sent, and a sleep returns within MaxLate of being due
TimePasses ==
    /\ \A t \in Tasks :
          /\ pc[t] \in {"robots", "get"} => now < sentAt[t] + MaxLatency
          /\ pc[t] \in {"rl_sleep", "backoff"} => now < wakeAt[t] + MaxLate
    /\ now' = now + 1
    /\ UNCHANGED <<cache, lastRequest, pc, attempt, wakeAt, sentAt, call, prev, nCalls,
                   leaveLog, robotsReqs, besideClient>>

\* time passes, up to the end of the time the model follows
Tick ==
    /\ now < MaxTime
    /\ TimePasses

\* a process that has not scraped yet
ClientInit ==
    /\ now = StartTime
    /\ cache = [h \in Hosts |-> NoRobots]
    /\ lastRequest = [h \in Hosts |-> 0]
    /\ pc = [t \in Tasks |-> "idle"]
    /\ attempt = [t \in Tasks |-> 0]
    /\ wakeAt = [t \in Tasks |-> 0]
    /\ sentAt = [t \in Tasks |-> 0]
    /\ call = [t \in Tasks |-> NoCall]
    /\ prev = [t \in Tasks |-> [host |-> "a", firstGet |-> 0]]
    /\ nCalls = [t \in Tasks |-> 0]
    /\ leaveLog = [h \in Hosts |-> << >>]
    /\ robotsReqs = [h \in Hosts |-> 0]

\* the keys of the dict result of fetch_all_markets, in its order
MarketKeys == <<"forex", "indices", "commodities", "bonds", "crypto", "stocks">>

MarketSet == {MarketKeys[i] : i \in DOMAIN MarketKeys}

\* the categories, in the order orchestrate() goes through them
OrchestrateOrder ==
    <<"forex", "indices", "commodities", "bonds", "crypto", "stocks", "macro", "news">>

Categories == {OrchestrateOrder[i] : i \in DOMAIN OrchestrateOrder}

\* the keys of the dict parse_macro_indicators returns
Countries == {"US", "UK", "EU", "JP", "CN", "DE", "FR", "IT", "ES", "CA", "AU", "BR", "IN"}

\* the field of TradingEconomicsOutput that run_pipeline's country_map pairs with a country
MacroField ==
    [c \in Countries |->
        CASE c = "US" -> "macro_us" [] c = "UK" -> "macro_uk" [] c = "EU" -> "macro_eu"
          [] c = "JP" -> "macro_jp" [] c = "CN" -> "macro_cn" [] c = "DE" -> "macro_de"
          [] c = "FR" -> "macro_fr" [] c = "IT" -> "macro_it" [] c = "ES" -> "macro_es"
          [] c = "CA" -> "macro_ca" [] c = "AU" -> "macro_au" [] c = "BR" -> "macro_br"
          [] c = "IN" -> "macro_in"]

\* the keys of the dict parse_all_news_categories returns, also fields of the output
NewsKeys == {"market_headlines", "earnings_announcements", "dividend_news"}

Fields == MarketSet \cup {MacroField[c] : c \in Countries} \cup NewsKeys

\* a fresh TradingEconomicsOutput: every list is empty
EmptyOutput == [f \in Fields |-> << >>]

\* the dict data of orchestrate() at its start; << >> is also the empty dict
EmptyData == [c \in Categories |-> << >>]

\* a category that has not been fetched
NotRun == [done |-> FALSE, raised |-> << >>, parsed |-> << >>]

\* no driver has been called
PipelineIdle ==
    /\ driver = "none"
    /\ stage = "idle"
    /\ marketTasks = [k \in MarketSet |-> "none"]
    /\ returned = [k \in MarketSet |-> << >>]
    /\ ran = [c \in Categories |-> NotRun]
    /\ errors = << >>
    /\ outErrors = << >>
    /\ output = EmptyOutput
    /\ country_map = << >>
    /\ data = EmptyData
    /\ exitStatus = << >>

\* no function of the extraction engine is called on its own
NoFunctionCalled ==
    /\ calledFn = ""
    /\ calledArg = << >>
    /\ callResult = << >>

\* no file is put to a question
NoQuestion ==
    /\ fileText = << >>
    /\ askedPath = << >>
    /\ filePolicy = NoRobots
    /\ answer = << >>

\* the client has been entered (async with ScrapingClient() as client), and
\* scrape_with_fallback is not called
ClientEntered ==
    /\ clientOpen = TRUE
    /\ fallback = "none"
    /\ loaded = {}

Init == ClientInit /\ NoQuestion /\ PipelineIdle /\ NoFunctionCalled /\ ClientEntered

\* one caller making one scrape() call after the other, as orchestrate() does
Caller == 1

Next ==
    \/ \E u \in Urls : ScrapeStart(Caller, u, MaxFetches)
    \/ \E s \in RobotsStatuses, f \in RobotsFiles : RobotsResponse(Caller, s, f)
    \/ RateLimiterWake(Caller)
    \/ \E s \in PageStatuses : GetResponse(Caller, s)
    \/ BackoffWake(Caller)
    \/ Tick

Spec == Init /\ [][Next]_vars

---------------------------------------------------------------------------
(* fetch_all_markets: one task per market category, each making one        *)
(* scrape() call on the shared client; the pages are on one host.          *)

MarketUrls == {[host |-> "a", path |-> Forex]}

\* the answers after which _request_with_retry does not retry
FinalStatuses == {s \in PageStatuses : s # NetworkError /\ ~ IsRetryable(s)}

\* asyncio runs every task created by fetch_all_markets up to its first suspension
\* before it looks at the network or at the timers
AllStarted == \A t \in Tasks : nCalls[t] = 1

TaskRobotsResponse(t, s, f) == AllStarted /\ RobotsResponse(t, s, f)
TaskRateLimiterWake(t) == AllStarted /\ RateLimiterWake(t)
TaskGetResponse(t, s) == AllStarted /\ GetResponse(t, s)
TaskTick == AllStarted /\ Tick

NextTasks ==
    \/ \E t \in Tasks, u \in MarketUrls : ScrapeStart(t, u, 1)
    \/ \E t \in Tasks, s \in RobotsStatuses, f \in RobotsFiles : TaskRobotsResponse(t, s, f)
    \/ \E t \in Tasks : TaskRateLimiterWake(t)
    \/ \E t \in Tasks, s \in FinalStatuses : TaskGetResponse(t, s)
    \/ TaskTick

SpecTasks == Init /\ [][NextTasks]_vars

---------------------------------------------------------------------------
(* _parse_robots_content and RobotsTxt.is_allowed on their own: a file of   *)
(* at most MaxLines lines is parsed, and the policy is asked about a path.  *)

MaxLines == 2

RobotsNames == {"Disallow", "DISALLOW", "Allow", "User-agent", "#"}
RobotsValues == {EmptyText, Private, <<" ">> \o PrivateUp, PrivateX}
RobotsLines == [name : RobotsNames, value : RobotsValues]

RECURSIVE SeqsUpTo(_, _)
SeqsUpTo(S, n) ==
    IF n = 0 THEN {<< >>}
    ELSE LET shorter == SeqsUpTo(S, n - 1)
         IN  shorter \cup {Append(q, x) : q \in shorter, x \in S}

AskedPaths == {Slash, Private, PrivateUp, PrivateX, PrivateUp \o <<"/", "x">>, Forex}

InitRobots ==
    /\ ClientInit
    /\ fileText \in SeqsUpTo(RobotsLines, MaxLines)
    /\ askedPath \in AskedPaths
    /\ filePolicy = NoRobots
    /\ answer = << >>
    /\ PipelineIdle
    /\ ClientEntered
    /\ NoFunctionCalled

ParseFile ==
    /\ ~ filePolicy.present
    /\ filePolicy' = ParseRobotsContent(fileText)
    /\ UNCHANGED <<fileText, askedPath, answer, clientVars, pipelineVars, callVars,
                   contextVars>>

AskIsAllowed ==
    /\ filePolicy.present
    /\ answer = << >>
    /\ answer' = <<IsAllowed(filePolicy, askedPath)>>
    /\ UNCHANGED <<fileText, askedPath, filePolicy, clientVars, pipelineVars, callVars,
                   contextVars>>

NextRobots == ParseFile \/ AskIsAllowed

SpecRobots == InitRobots /\ [][NextRobots]_vars

---------------------------------------------------------------------------
(* The robots.txt cache over its time to live: one caller makes scrape()   *)
(* calls one after the other, and may stay idle for a long time between    *)
(* two of them.                                                            *)

CacheFetches == 3

\* a wait that takes the clock from the first Horizon units to the units in which
\* an entry cached then reaches CACHE_TTL
LongWait == CACHE_TTL - Horizon

MaxCacheTime == MaxTime + LongWait

\* time passes by one unit, in the first Horizon units and in those after a LongWait
CacheTick ==
    /\ (now - StartTime) % LongWait < Horizon
    /\ now < MaxCacheTime
    /\ pc[Caller] \in {"robots", "get"} => now < sentAt[Caller] + MaxLatency
    /\ pc[Caller] = "rl_sleep" => now < wakeAt[Caller] + MaxLate
    /\ now' = now + 1
    /\ UNCHANGED <<cache, lastRequest, pc, attempt, wakeAt, sentAt, call, prev, nCalls,
                   leaveLog, robotsReqs, besideClient>>

\* the caller stays idle for LongWait
CacheLongWait ==
    /\ pc[Caller] = "idle"
    /\ now + LongWait <= MaxCacheTime
    /\ now' = now + LongWait
    /\ UNCHANGED <<cache, lastRequest, pc, attempt, wakeAt, sentAt, call, prev, nCalls,
                   leaveLog, robotsReqs, besideClient>>

NextCache ==
    \/ \E u \in Urls : ScrapeStart(Caller, u, CacheFetches)
    \/ \E s \in RobotsStatuses, f \in RobotsFiles : RobotsResponse(Caller, s, f)
    \/ RateLimiterWake(Caller)
    \/ \E s \in FinalStatuses : GetResponse(Caller, s)
    \/ CacheTick
    \/ CacheLongWait

SpecCache == Init /\ [][NextCache]_vars

---------------------------------------------------------------------------
(* The drivers.  A category is fetched with scrape(), which returns the    *)
(* page or raises one of the errors of the fetch client, and the page is   *)
(* given to the parser of the category, which returns its records or       *)
(* raises.                                                                 *)

ParserFault == [kind |-> "parser fault", status |-> 0]

\* what scrape() raises: a RobotsTxtError, or a RequestError (here the one of a 404;
\* the one of exhausted retries is of the same class and is caught alike)
ScrapeErrors == {RobotsBlocked, RequestFailed(404)}

\* what the parser of a category may return: no record, or some
ParserResults(c) ==
    IF c = "macro"
    THEN {[k \in Countries |-> << >>],
          [k \in Countries |-> IF k = "US" THEN <<"gdp">> ELSE << >>]}
    ELSE IF c = "news"
    THEN {[k \in NewsKeys |-> << >>],
          [k \in NewsKeys |-> IF k = "market_headlines" THEN <<"headline">> ELSE << >>]}
    ELSE {<< >>, <<"quote">>}

\* the ways the fetch and the extraction of category c may go: scrape() raises, or
\* the parser raises, or the parser returns
Runs(c) ==
    {[done |-> TRUE, raised |-> <<e>>, parsed |-> << >>] : e \in ScrapeErrors \cup {ParserFault}}
    \cup {[done |-> TRUE, raised |-> << >>, parsed |-> <<v>>] : v \in ParserResults(c)}

\* fetch_market_data, fetch_macro_data, fetch_headlines: the try block returns what
\* the parser returned, both except clauses log and fall through to the default
FetchResult(r, default) == IF r.raised = << >> THEN r.parsed[1] ELSE default

\* fetch_headlines, lines 198-202
NoHeadlines == [k \in NewsKeys |-> << >>]

\* dict.get(key, []) on what a fetch function returned
Get(d, key) == IF key \in DOMAIN d THEN d[key] ELSE << >>

\* main(), line 389: the errors at which the exit status is 1
ERROR_THRESHOLD == 3

\* main(), lines 388-392, with the list output.errors of the output run_pipeline returned
ExitStatusOf(errs) == IF errs # << >> /\ Len(errs) >= ERROR_THRESHOLD THEN 1 ELSE 0

\* run_pipeline up to its first suspension: fetch_all_markets has created its tasks
\* and awaits the first, and every task is suspended in scrape()
RunPipelineStart ==
    /\ driver = "none"
    /\ driver' = "run_pipeline"
    /\ stage' = "markets"
    /\ errors' = << >>
    /\ output' = EmptyOutput
    /\ marketTasks' = [k \in MarketSet |-> "scraping"]
    /\ UNCHANGED <<returned, ran, outErrors, country_map, data, besidePipeline, exitStatus>>

\* the task of fetch_market_data(client, k) ends
MarketTaskEnds(k, r) ==
    /\ driver = "run_pipeline"
    /\ marketTasks[k] = "scraping"
    /\ marketTasks' = [marketTasks EXCEPT ![k] = "done"]
    /\ returned' = [returned EXCEPT ![k] = FetchResult(r, << >>)]
    /\ ran' = [ran EXCEPT ![k] = r]
    /\ UNCHANGED <<driver, stage, errors, outErrors, output, country_map, data,
                   besidePipeline, exitStatus>>

\* fetch_all_markets has awaited its last task and returns; run_pipeline, lines
\* 235-244, up to the scrape() of fetch_macro_data
FetchAllMarketsReturns ==
    /\ driver = "run_pipeline"
    /\ stage = "markets"
    /\ \A k \in MarketSet : marketTasks[k] = "done"
    /\ LET markets == [k \in MarketSet |-> returned[k]]
       IN  output' = [f \in Fields |-> IF f \in MarketSet THEN Get(markets, f) ELSE output[f]]
    /\ stage' = "macro"
    /\ UNCHANGED <<driver, marketTasks, returned, ran, errors, outErrors, country_map, data,
                   besidePipeline, exitStatus>>

\* fetch_macro_data returns; run_pipeline, lines 247-269, up to the scrape() of
\* fetch_headlines: the loop assigns to the keys of country_map
FetchMacroReturns(r) ==
    /\ driver = "run_pipeline"
    /\ stage = "macro"
    /\ LET macro == FetchResult(r, << >>)
           built == [c \in Countries |-> output[MacroField[c]]]
       IN  country_map' = [c \in Countries |->
                              IF c \in DOMAIN macro THEN macro[c] ELSE built[c]]
    /\ ran' = [ran EXCEPT !["macro"] = r]
    /\ stage' = "news"
    /\ UNCHANGED <<driver, marketTasks, returned, errors, outErrors, output, data,
                   besidePipeline, exitStatus>>

\* fetch_headlines returns; run_pipeline, lines 270-286
FetchHeadlinesReturns(r) ==
    /\ driver = "run_pipeline"
    /\ stage = "news"
    /\ LET news == FetchResult(r, NoHeadlines)
       IN  output' = [f \in Fields |-> IF f \in NewsKeys THEN Get(news, f) ELSE output[f]]
    /\ ran' = [ran EXCEPT !["news"] = r]
    /\ outErrors' = errors
    /\ stage' = "done"
    /\ exitStatus' = <<ExitStatusOf(errors)>>
    /\ UNCHANGED <<driver, marketTasks, returned, errors, country_map, data,
                   besidePipeline>>

\* the entry run_pipeline adds to errors at line 290
PipelineInterrupted ==
    [category |-> "", error |-> [kind |-> "Pipeline interrupted by user", status |-> 0]]

\* the ways a Ctrl-C reaches run_pipeline: as a KeyboardInterrupt raised in the
\* code of the main task, or, from asyncio.run, as the cancellation of the main
\* task at the await it is suspended in
Deliveries == {"KeyboardInterrupt", "CancelledError"}

\* the run is interrupted while run_pipeline awaits a category.  A
\* KeyboardInterrupt is caught at line 288: run_pipeline returns the output as it
\* is and main() exits on its errors.  A CancelledError is caught by neither except
\* clause: run_pipeline returns nothing, asyncio.run raises KeyboardInterrupt, which
\* main() does not catch either.  The tasks still in flight are cancelled.
Interrupt(delivery) ==
    /\ driver = "run_pipeline"
    /\ stage \in {"markets", "macro", "news"}
    /\ marketTasks' = [k \in MarketSet |->
                          IF marketTasks[k] = "scraping" THEN "cancelled" ELSE marketTasks[k]]
    /\ IF delivery = "KeyboardInterrupt"
       THEN /\ errors' = Append(errors, PipelineInterrupted)
            /\ outErrors' = errors'
            /\ stage' = "interrupted"
            /\ exitStatus' = <<ExitStatusOf(errors')>>
       ELSE /\ stage' = "aborted"
            /\ exitStatus' = <<130>>
            /\ UNCHANGED <<errors, outErrors>>
    /\ UNCHANGED <<driver, returned, ran, output, country_map, data, besidePipeline>>

\* orchestrate() up to its first suspension, the scrape() of the first category
OrchestrateStart ==
    /\ driver = "none"
    /\ driver' = "orchestrate"
    /\ stage' = OrchestrateOrder[1]
    /\ errors' = << >>
    /\ outErrors' = << >>
    /\ data' = EmptyData
    /\ UNCHANGED <<marketTasks, returned, ran, output, country_map, besidePipeline, exitStatus>>

\* the category after c in orchestrate(), "done" after the last
NextStage(c) ==
    LET i == CHOOSE j \in DOMAIN OrchestrateOrder : OrchestrateOrder[j] = c
    IN  IF i = Len(OrchestrateOrder) THEN "done" ELSE OrchestrateOrder[i + 1]

\* one try block of orchestrate(), lines 351-409, ends, and the next one starts;
\* the list in data["metadata"] is the list errors itself
OrchestrateCategoryEnds(r) ==
    /\ driver = "orchestrate"
    /\ stage \in Categories
    /\ IF r.raised = << >>
       THEN /\ data' = [data EXCEPT ![stage] = r.parsed[1]]
            /\ UNCHANGED <<errors, outErrors>>
       ELSE /\ errors' = Append(errors, [category |-> stage, error |-> r.raised[1]])
            /\ outErrors' = errors'
            /\ UNCHANGED data
    /\ ran' = [ran EXCEPT ![stage] = r]
    /\ stage' = NextStage(stage)
    /\ UNCHANGED <<driver, marketTasks, returned, output, country_map, besidePipeline, exitStatus>>

NextPipeline ==
    \/ RunPipelineStart
    \/ \E k \in MarketSet : \E r \in Runs(k) : MarketTaskEnds(k, r)
    \/ FetchAllMarketsReturns
    \/ \E r \in Runs("macro") : FetchMacroReturns(r)
    \/ \E r \in Runs("news") : FetchHeadlinesReturns(r)
    \/ \E d \in Deliveries : Interrupt(d)
    \/ OrchestrateStart
    \/ \E r \in Runs(stage) : OrchestrateCategoryEnds(r)

SpecPipeline == Init /\ [][NextPipeline]_vars

---------------------------------------------------------------------------
(* The extraction engine: numbers.  A number is an integer count of        *)
(* 1/Scale, and the absent value (None) is << >>.  The texts of the model   *)
(* have at most four decimals and none of the other forms float() accepts   *)
(* (exponents, underscores, "inf", "nan", non-ASCII digits).                *)

Scale == 10000

None == << >>
Some(v) == <<v>>

\* what a call gives when it raises the exception e
Raise(e) == <<"raise", e>>

Digits == {"0", "1", "2", "3", "4", "5", "6", "7", "8", "9"}

DigitVal(c) ==
    CASE c = "0" -> 0 [] c = "1" -> 1 [] c = "2" -> 2 [] c = "3" -> 3
      [] c = "4" -> 4 [] c = "5" -> 5 [] c = "6" -> 6 [] c = "7" -> 7
      [] c = "8" -> 8 [] c = "9" -> 9

RECURSIVE NatOf(_)
NatOf(s) ==
    IF s = << >> THEN 0
    ELSE NatOf(SubSeq(s, 1, Len(s) - 1)) * 10 + DigitVal(s[Len(s)])

\* str.replace(c, d) for one character c and a text d
RECURSIVE Replace(_, _, _)
Replace(s, c, d) ==
    IF s = << >> THEN << >>
    ELSE (IF Head(s) = c THEN d ELSE <<Head(s)>>) \o Replace(Tail(s), c, d)

\* str.replace(c, '')
Remove(s, c) == Replace(s, c, << >>)

\* str.endswith
EndsWith(s, p) ==
    Len(p) <= Len(s) /\ SubSeq(s, Len(s) - Len(p) + 1, Len(s)) = p

\* the first index of c in s, 0 when there is none
FirstIndex(s, c) ==
    IF \E i \in DOMAIN s : s[i] = c
    THEN CHOOSE i \in DOMAIN s : s[i] = c /\ \A j \in 1..(i - 1) : s[j] # c
    ELSE 0

\* digits with at most one point and at least one digit
IsUnsigned(s) ==
    /\ \A i \in DOMAIN s : s[i] \in Digits \union {"."}
    /\ \E i \in DOMAIN s : s[i] \in Digits
    /\ Cardinality({i \in DOMAIN s : s[i] = "."}) <= 1

RECURSIVE PadRight(_, _)
PadRight(s, n) == IF Len(s) >= n THEN SubSeq(s, 1, n) ELSE PadRight(s \o <<"0">>, n)

UnsignedValue(s) ==
    LET dot == FirstIndex(s, ".")
        whole == IF dot = 0 THEN s ELSE SubSeq(s, 1, dot - 1)
        frac == IF dot = 0 THEN << >> ELSE SubSeq(s, dot + 1, Len(s))
    IN NatOf(whole) * Scale + NatOf(PadRight(frac, 4))

\* float(text): the number, or None where float raises ValueError
ParseFloat(text) ==
    LET s == Strip(text)
        signed == s # << >> /\ s[1] \in {"+", "-"}
        body == IF signed THEN Tail(s) ELSE s
    IN IF ~IsUnsigned(body) THEN None
       ELSE IF signed /\ s[1] = "-" THEN Some(0 - UnsignedValue(body))
       ELSE Some(UnsignedValue(body))

\* the minus sign U+2212, the en dash U+2013, and the currency signs
UMinus == "U+2212"
EnDash == "U+2013"
Euro == "U+20AC"
Pound == "U+00A3"
Yen == "U+00A5"

\* markets._parse_percentage
markets_parse_percentage(value) ==
    IF Strip(value) = << >> THEN None
    ELSE LET a == Replace(Replace(Remove(Strip(value), "%"), UMinus, <<"-">>),
                          EnDash, <<"-">>)
             b == Strip(Remove(a, "+"))
             cleaned == IF StartsWith(b, <<"(">>) /\ EndsWith(b, <<")">>)
                        THEN <<"-">> \o SubSeq(b, 2, Len(b) - 1)
                        ELSE b
         IN ParseFloat(cleaned)

\* markets._parse_price
markets_parse_price(value) ==
    IF Strip(value) = << >> THEN None
    ELSE LET a == Remove(Remove(Remove(Strip(value), "$"), Euro), Pound)
             cleaned == Remove(Remove(a, ","), " ")
         IN ParseFloat(cleaned)

\* etfs._parse_price
etfs_parse_price(value) ==
    IF Strip(value) = << >> THEN None
    ELSE ParseFloat(Remove(Remove(Remove(Strip(value), "$"), ","), " "))

\* etfs._parse_percentage
etfs_parse_percentage(value) ==
    IF Strip(value) = << >> THEN None
    ELSE ParseFloat(Replace(Replace(Remove(Strip(value), "%"), UMinus, <<"-">>),
                            EnDash, <<"-">>))

RECURSIVE RemoveAll(_, _)
RemoveAll(s, chars) ==
    IF chars = << >> THEN s ELSE RemoveAll(Remove(s, Head(chars)), Tail(chars))

\* derivatives._parse_price
derivatives_parse_price(value) ==
    IF Strip(value) = << >> THEN None
    ELSE LET a == RemoveAll(Strip(value), <<"$", Yen, Euro, Pound, ",">>)
         IN ParseFloat(Replace(Replace(a, UMinus, <<"-">>), EnDash, <<"-">>))

\* derivatives._parse_change
derivatives_parse_change(value) ==
    IF Strip(value) = << >> THEN None
    ELSE ParseFloat(Replace(Replace(Remove(Strip(value), "+"), UMinus, <<"-">>),
                            EnDash, <<"-">>))

\* derivatives._parse_percentage
derivatives_parse_percentage(value) ==
    IF Strip(value) = << >> THEN None
    ELSE LET a == Replace(Replace(Remove(Strip(value), "%"), UMinus, <<"-">>),
                          EnDash, <<"-">>)
         IN ParseFloat(Remove(a, "+"))

\* the tokens macro._parse_number takes for a missing value
NotAvailable ==
    {<<"n", "/", "a">>, <<"n", "a">>, <<"n", ".", "a", ".">>, <<"-">>,
     <<".", ".", ".">>, << >>}

\* macro._parse_number
macro_parse_number(value) ==
    IF Strip(value) = << >> THEN None
    ELSE LET a == RemoveAll(Strip(value),
                            <<"$", Euro, Pound, Yen, "%", UMinus, EnDash, UMinus,
                              "(", ")", ",">>)
             cleaned == Remove(a, " ")
         IN IF Lower(cleaned) \in NotAvailable THEN None ELSE ParseFloat(cleaned)

\* the unit suffixes of macro._parse_indicator_value, in its order
UnitSuffixes ==
    << <<"%">>, <<"b", "p", "s">>,
       <<"b", "a", "s", "i", "s", " ", "p", "o", "i", "n", "t", "s">>,
       <<"b", "l", "n">>, <<"b", "n">>,
       <<"b", "i", "l", "l", "i", "o", "n">>,
       <<"t", "r", "i", "l", "l", "i", "o", "n">>, <<"t">> >>

\* macro._parse_indicator_value
macro_parse_indicator_value(value) ==
    IF Strip(value) = << >> THEN None
    ELSE LET cleaned == Strip(value)
             fits(i) == EndsWith(Lower(cleaned), <<" ">> \o UnitSuffixes[i])
             hits == {i \in DOMAIN UnitSuffixes : fits(i)}
             first == CHOOSE i \in hits : \A j \in hits : i <= j
         IN IF hits = {} THEN macro_parse_number(cleaned)
            ELSE macro_parse_number(
                     SubSeq(cleaned, 1, Len(cleaned) - Len(UnitSuffixes[first]) - 1))

---------------------------------------------------------------------------
(* models.MarketInstrument: a candidate is the record of the keyword        *)
(* arguments of the constructor; constructing it gives <<i>>, the           *)
(* instrument, or raises ValidationError (a ValueError).  The timestamp,    *)
(* which defaults to the time of construction, and the optional bid, ask,   *)
(* high, low and open are left out: no parser passes them and no validator  *)
(* reads them.                                                              *)

MarketCategory ==
    {"forex", "indices", "commodities", "bonds", "crypto", "stocks", "etfs",
     "derivatives"}

\* the members of the enumeration by the name the code accesses them with;
\* << >> where the class has no attribute of that name (AttributeError)
MarketCategoryMember(name) ==
    CASE name = "FOREX" -> Some("forex")
      [] name = "INDICES" -> Some("indices")
      [] name = "COMMODITIES" -> Some("commodities")
      [] name = "BONDS" -> Some("bonds")
      [] name = "CRYPTO" -> Some("crypto")
      [] name = "STOCKS" -> Some("stocks")
      [] name = "ETFs" -> Some("etfs")
      [] name = "DERIVATIVES" -> Some("derivatives")
      [] OTHER -> None

ValidationError == Raise("ValidationError")

Candidate(symbol, name, value, change, pct_change, category, previous_close) ==
    [symbol |-> symbol, name |-> name, value |-> value, change |-> change,
     pct_change |-> pct_change, category |-> category,
     previous_close |-> previous_close]

\* the characters of r'^[A-Za-z0-9\-\.\/]+$'
SymbolChars ==
    {LowerLetters[i] : i \in DOMAIN LowerLetters}
    \union {UpperLetters[i] : i \in DOMAIN UpperLetters}
    \union Digits \union {"-", ".", "/"}

\* symbol_must_be_valid, after min_length=1 and max_length=50
SymbolIsValid(v) ==
    /\ Len(v) >= 1
    /\ Len(v) <= 50
    /\ \A i \in DOMAIN v : v[i] \in SymbolChars

Abs(n) == IF n < 0 THEN 0 - n ELSE n

RECURSIVE GCD(_, _)
GCD(a, b) == IF b = 0 THEN a ELSE GCD(b, a % b)

\* pct_change - change / previous_close * 100 against the tolerance 0.01, in
\* exact arithmetic: -1 below it, 0 on it, 1 above it.  With p, c and v the
\* three numbers in units of 1/Scale, |p/Scale - 100 c/v| against 1/100 is
\* |p v - 100 c Scale| against |v| Scale / 100, here divided by the common
\* factor of v and Scale.
ToleranceCompare(pct_change, change, previous_close) ==
    LET g == GCD(Abs(previous_close), Scale)
        v == previous_close \div g
        s == Scale \div g
        diff == Abs(pct_change * v - 100 * change * s)
        tol == Abs(v) * (Scale \div 100)
    IN IF diff < tol THEN 0 - 1 ELSE IF diff = tol THEN 0 ELSE 1

\* validate_change_consistency: TRUE when it raises.  previous_close is
\* tested for truth, so that 0 skips the check as None does.  The code
\* computes in binary floating point: where the exact difference is the
\* tolerance itself, the rounding of the operands decides, either way
\* (onBoundary is that decision).
ChangeIsInconsistent(c, onBoundary) ==
    /\ c.change # None
    /\ c.pct_change # None
    /\ c.previous_close # None
    /\ c.previous_close[1] # 0
    /\ LET cmp == ToleranceCompare(c.pct_change[1], c.change[1],
                                   c.previous_close[1])
       IN cmp = 1 \/ (cmp = 0 /\ onBoundary)

PctChangeUnbounded(pct_change) == TRUE

\* ge=-100, le=100 on the optional pct_change
PctChangeInBounds(pct_change) ==
    pct_change = None
    \/ (pct_change[1] >= (0 - 100) * Scale /\ pct_change[1] <= 100 * Scale)

\* MarketInstrument(**c)
MarketInstrumentRounding(c, onBoundary) ==
    IF \/ ~SymbolIsValid(c.symbol)
       \/ Len(c.name) < 1
       \/ Len(c.name) > 200
       \/ c.value = None
       \/ ~PctChangeInBounds(c.pct_change)
       \/ c.category \notin MarketCategory
       \/ ChangeIsInconsistent(c, onBoundary)
    THEN ValidationError
    ELSE Some([c EXCEPT !.symbol = Upper(c.symbol), !.value = c.value[1]])

\* the constructor where previous_close is not passed (every parser): the
\* consistency check does not run
MarketInstrument(c) == MarketInstrumentRounding(c, FALSE)

---------------------------------------------------------------------------
(* The market parsers.  Of a document the model keeps what a parser works   *)
(* on: whether the element its row finder selects is there (panel), and the *)
(* rows in it, each with the texts of its cells in document order and the   *)
(* data-symbol attribute, << >> where the row has none.  A row is taken as  *)
(* a candidate and gives << >>, where it is skipped or dropped, or <<i>>,   *)
(* the instrument appended for it.                                          *)

Min(a, b) == IF a <= b THEN a ELSE b

\* s[a:b] of Python, for 0 <= a <= b
Slice(s, a, b) == SubSeq(s, a + 1, Min(b, Len(s)))

\* s[a:]
SliceFrom(s, a) == SubSeq(s, a + 1, Len(s))

Row(cells, data_symbol) == [cells |-> cells, data_symbol |-> data_symbol]

Page(panel, rows) == [panel |-> panel, rows |-> rows]

\* markets._find_instrument_rows
find_instrument_rows(page) == IF page.panel THEN page.rows ELSE << >>

\* markets._extract_row_cells: the stripped text of each cell, or the text
\* of the whole row as one cell where the row has no cell
extract_row_cells(row) ==
    IF row.cells # << >>
    THEN [i \in DOMAIN row.cells |-> Strip(row.cells[i])]
    ELSE << << >> >>

\* row.get("data-symbol", default)
DataSymbol(row, default) ==
    IF row.data_symbol # None THEN row.data_symbol[1] ELSE default

\* the first value a normaliser gives over the cells, None when none does
FirstParsed(parse(_), cells) ==
    LET hits == {i \in DOMAIN cells : parse(cells[i]) # None}
    IN IF hits = {} THEN None
       ELSE parse(cells[CHOOSE i \in hits : \A j \in hits : i <= j])

\* the last value a normaliser gives over the cells, None when none does
LastParsed(parse(_), cells) ==
    LET hits == {i \in DOMAIN cells : parse(cells[i]) # None}
    IN IF hits = {} THEN None
       ELSE parse(cells[CHOOSE i \in hits : \A j \in hits : i >= j])

\* except (ValueError, ...): continue, around the constructor
Appended(candidate) ==
    IF MarketInstrument(candidate) = ValidationError THEN << >>
    ELSE MarketInstrument(candidate)

\* the body of the loop of parse_commodities
commodities_row(row) ==
    LET cells == extract_row_cells(row)
        name_cell == cells[1]
        symbol == DataSymbol(row, Upper(Slice(name_cell, 0, 6)))
        price == FirstParsed(markets_parse_price, Slice(cells, 1, 4))
        pct_change == LastParsed(markets_parse_percentage,
                                 SliceFrom(cells, Len(cells) - 2))
    IN IF Len(cells) < 2 \/ price = None THEN << >>
       ELSE Appended(Candidate(symbol, name_cell, price, None, pct_change,
                               MarketCategoryMember("COMMODITIES")[1], None))

\* the first percentage of at most 10 in size among the cells
SmallPercentage(cell) ==
    LET pct == markets_parse_percentage(cell)
    IN IF pct # None /\ Abs(pct[1]) <= 10 * Scale THEN pct ELSE None

\* the body of the loop of parse_indexes
indexes_row(row) ==
    LET cells == extract_row_cells(row)
        name_cell == cells[1]
        symbol == DataSymbol(row, Upper(Slice(name_cell, 0, 4)))
        value == FirstParsed(markets_parse_price, Slice(cells, 1, 4))
        pct_change == FirstParsed(SmallPercentage, cells)
    IN IF Len(cells) < 2 \/ value = None THEN << >>
       ELSE Appended(Candidate(symbol, name_cell, value, None, pct_change,
                               MarketCategoryMember("INDICES")[1], None))

\* the body of the loop of parse_stocks
stocks_row(row) ==
    LET cells == extract_row_cells(row)
        price == FirstParsed(markets_parse_price, Slice(cells, 2, 4))
        change == LastParsed(markets_parse_price, SliceFrom(cells, 3))
        pct_change == LastParsed(markets_parse_percentage, SliceFrom(cells, 3))
    IN IF Len(cells) < 3 \/ price = None THEN << >>
       ELSE Appended(Candidate(cells[1], cells[2], price, change, pct_change,
                               MarketCategoryMember("STOCKS")[1], None))

\* the body of the loop of parse_forex
forex_row(row) ==
    LET cells == extract_row_cells(row)
        pair == Upper(Remove(Remove(cells[1], "/"), " "))
        price == FirstParsed(markets_parse_price, Slice(cells, 1, 3))
        change == None
        pct_change == LastParsed(markets_parse_percentage, cells)
    IN IF Len(cells) < 2 \/ price = None THEN << >>
       ELSE Appended(Candidate(pair, cells[1], price, change, pct_change,
                               MarketCategoryMember("FOREX")[1], None))

\* the body of the loop of parse_bonds
bonds_row(row) ==
    LET cells == extract_row_cells(row)
        name_cell == cells[1]
        symbol == DataSymbol(row, Upper(Slice(name_cell, 0, 6)))
        yield_val == FirstParsed(markets_parse_price, Slice(cells, 1, 3))
        pct_change == LastParsed(markets_parse_percentage, cells)
    IN IF Len(cells) < 2 \/ yield_val = None THEN << >>
       ELSE Appended(Candidate(symbol, name_cell, yield_val, None, pct_change,
                               MarketCategoryMember("BONDS")[1], None))

\* the body of the loop of parse_crypto
crypto_row(row) ==
    LET cells == extract_row_cells(row)
        name_cell == cells[1]
        symbol == DataSymbol(row, Upper(Slice(name_cell, 0, 4)))
        price == FirstParsed(markets_parse_price, Slice(cells, 1, 3))
        pct_change == LastParsed(markets_parse_percentage, cells)
    IN IF Len(cells) < 2 \/ price = None THEN << >>
       ELSE Appended(Candidate(symbol, name_cell, price, None, pct_change,
                               MarketCategoryMember("CRYPTO")[1], None))

---------------------------------------------------------------------------
(* parse_etfs and parse_derivatives.  Their row finders look for an element *)
(* by id (panel) and take the rows of its table body; a document without it *)
(* has here no table either, so that the finders return no row.  The first  *)
(* cell of a row holds no link.                                             *)

Max(a, b) == IF a >= b THEN a ELSE b

Contains(s, c) == \E i \in DOMAIN s : s[i] = c

\* etfs._find_etf_rows, derivatives._find_derivatives_rows
find_table_rows(page) == IF page.panel THEN page.rows ELSE << >>

\* [cell.get_text(strip=True) for cell in row.find_all(['td', 'th'])]
CellTexts(row) == [i \in DOMAIN row.cells |-> Strip(row.cells[i])]

EtfSuffix == <<" ", "E", "T", "F">>
FuturesSuffix == <<" ", "F", "u", "t", "u", "r", "e", "s">>

\* what parse_etfs has extracted of a row when it reaches the constructor,
\* << >> where it leaves the row before
etfs_extracted(row) ==
    LET cells == CellTexts(row)
        symbol == cells[1]
        name == IF cells[2] = << >> \/ cells[2] = symbol
                THEN symbol \o EtfSuffix ELSE cells[2]
        price == FirstParsed(etfs_parse_price, Slice(cells, 2, 4))
        small(cell) ==
            LET pct == etfs_parse_percentage(cell)
            IN IF pct # None /\ Abs(pct[1]) < 50 * Scale THEN pct ELSE None
        change == LastParsed(small, Slice(cells, 3, Len(cells) - 2))
        pct_change == LastParsed(etfs_parse_percentage,
                                 SliceFrom(cells, Max(3, Len(cells) - 2)))
    IN IF Len(cells) < 2 THEN << >>
       ELSE IF symbol = << >> \/ Len(symbol) > 10 THEN << >>
       ELSE IF price = None THEN << >>
       ELSE <<[symbol |-> Upper(symbol), name |-> name, value |-> price,
               change |-> change, pct_change |-> pct_change]>>

\* the body of the loop of parse_etfs: the category is read as
\* MarketCategory.ETFS, and an AttributeError leaves the row
etfs_row(row) ==
    LET e == etfs_extracted(row)
        category == MarketCategoryMember("ETFS")
    IN IF e = << >> THEN << >>
       ELSE IF category = None THEN << >>
       ELSE Appended(Candidate(e[1].symbol, e[1].name, e[1].value, e[1].change,
                               e[1].pct_change, category[1], None))

\* the body of the loop of parse_derivatives.  A symbol of more than 8
\* characters is replaced by itself less two trailing digits when that is one
\* of nine names of at most 3 characters, which it never is.
derivatives_row(row) ==
    LET cells == CellTexts(row)
        symbol == cells[1]
        name == IF cells[2] = << >> \/ cells[2] = symbol
                THEN symbol \o FuturesSuffix ELSE cells[2]
        price == FirstParsed(derivatives_parse_price, Slice(cells, 2, 4))
        pctOf(text) ==
            IF Contains(text, "%") THEN derivatives_parse_percentage(text)
            ELSE None
        chgOf(text) ==
            IF Contains(text, "%") \/ text = << >> \/ Contains(text, "$")
            THEN None
            ELSE LET chg == derivatives_parse_change(text)
                 IN IF chg # None /\ Abs(chg[1]) < 1000 * Scale THEN chg
                    ELSE None
        change == LastParsed(chgOf, SliceFrom(cells, 3))
        pct_change == LastParsed(pctOf, SliceFrom(cells, 3))
        category == MarketCategoryMember("DERIVATIVES")
    IN IF Len(cells) < 2 THEN << >>
       ELSE IF symbol = << >> \/ Len(symbol) > 12 THEN << >>
       ELSE IF price = None THEN << >>
       ELSE IF category = None THEN << >>
       ELSE Appended(Candidate(Upper(symbol), name, price, change, pct_change,
                               category[1], None))

---------------------------------------------------------------------------
(* The headlines parser.  A timestamp text is the sequence of its words; a  *)
(* URL is the sequence of its parts (scheme, host, path parts).  An element *)
(* is kept by its title, the href of its first link (<< >> without one) and *)
(* stamps, the texts _extract_timestamp_from_element gives to               *)
(* _parse_datetime, in its order: the values of the attributes data-time,   *)
(* datetime, timestamp and pubdate, the datetime attribute and the text of  *)
(* the time tag, the matches of the time patterns in the text.  The wall    *)
(* clock is kept by its day of the month.                                   *)

ValueError == Raise("ValueError")

\* the words datetime.strptime reads with one of the formats, with the date
DateWords == {"2024-01-15"}

AbsoluteTime(word) == [on |-> word]

\* now.replace(day=d, ...), which raises ValueError for a day below 1
ReplaceDay(d) == IF d < 1 THEN ValueError ELSE Some([on |-> "now", day |-> d])

\* the parts _parse_datetime looks for that a word of the model contains
PartsOf(word) ==
    CASE word = "hours" -> {"hour"}
      [] word = "hrs" -> {"hr"}
      [] word = "minutes" -> {"minute", "min"}
      [] word = "yesterday" -> {"yesterday", "day"}
      [] word = "days" -> {"day"}
      [] word = "today" -> {"day"}
      [] OTHER -> {}

HasPart(value, parts) == \E i \in DOMAIN value : PartsOf(value[i]) \cap parts # {}

NumberWords == {"1", "2", "3"}

\* re.search(r'(\d+)', value): the first number of the text, << >> without
FirstNumber(value) ==
    LET hits == {i \in DOMAIN value : value[i] \in NumberWords}
    IN IF hits = {} THEN None
       ELSE Some(DigitVal(value[CHOOSE i \in hits : \A j \in hits : i <= j]))

\* headlines._parse_datetime at a wall clock whose day of the month is today:
\* None, the time, or ValueError where it raises
parse_datetime(value, today) ==
    IF value = << >> THEN None
    ELSE IF Len(value) = 1 /\ value[1] \in DateWords
    THEN Some(AbsoluteTime(value[1]))
    ELSE IF HasPart(value, {"hour", "hr"}) /\ FirstNumber(value) # None
    THEN Some([on |-> "now", day |-> today])
    ELSE IF HasPart(value, {"minute", "min"}) /\ FirstNumber(value) # None
    THEN Some([on |-> "now", day |-> today])
    ELSE IF HasPart(value, {"yesterday"}) THEN ReplaceDay(today - 1)
    ELSE IF HasPart(value, {"day"}) /\ FirstNumber(value) # None
    THEN ReplaceDay(today - FirstNumber(value)[1])
    ELSE None

\* headlines._extract_timestamp_from_element: the first time a stamp gives;
\* an exception of _parse_datetime passes through
RECURSIVE extract_timestamp(_, _)
extract_timestamp(stamps, today) ==
    IF stamps = << >> THEN None
    ELSE LET dt == parse_datetime(Head(stamps), today)
         IN IF dt = ValueError THEN ValueError
            ELSE IF dt # None THEN dt
            ELSE extract_timestamp(Tail(stamps), today)

Element(title, href, stamps) == [title |-> title, href |-> href, stamps |-> stamps]

SiteBase == <<"https://", "tradingeconomics.com">>

\* the URL of the link: a path is put after the site, an http URL is taken
\* as it is, anything else gives none
UrlOf(href) ==
    IF href = None \/ href[1] = << >> THEN None
    ELSE IF href[1][1] = "/" THEN Some(SiteBase \o href[1])
    ELSE IF href[1][1] \in {"http://", "https://"} THEN href
    ELSE None

UrlHosts == {"tradingeconomics.com", "example.org"}

\* NewsArticle.url_must_be_valid: scheme, host name, then parts without
\* white space
UrlIsValid(url) ==
    /\ Len(url) >= 2
    /\ url[1] \in {"http://", "https://"}
    /\ url[2] \in UrlHosts
    /\ Len(url) >= 3 => url[3] = "/"
    /\ \A i \in 3..Len(url) : url[i] # " "

\* headlines._extract_article_from_element: None or the article
extract_article_from_element(element, today) ==
    LET title == Strip(element.title)
        url == UrlOf(element.href)
        found == extract_timestamp(element.stamps, today)
        timestamp == IF found = None THEN [on |-> "now", day |-> today]
                     ELSE found[1]
    IN IF title = << >> \/ Len(title) < 5 THEN None
       ELSE IF url = None THEN None
       ELSE IF found = ValueError THEN None
       ELSE IF Len(title) > 500 \/ ~UrlIsValid(url[1]) THEN None
       ELSE Some([title |-> title, url |-> url[1], timestamp |-> timestamp])

\* the default of the limit of parse_headlines
HeadlineLimit == 3

\* headlines._find_headline_articles
find_headline_articles(page) == IF page.panel THEN page.rows ELSE << >>

---------------------------------------------------------------------------
(* The macro parser.  Of a document the model keeps its table: whether it   *)
(* is there (panel), whether an element of the document is selected by one  *)
(* of the macro classes (macro_class, the table itself in the documents of  *)
(* the model), and the texts of the cells of its rows.  The texts of the    *)
(* model hold none of the separators _extract_indicator_row splits a lone   *)
(* cell on.  Of a MacroIndicator the country, the name and the value are    *)
(* kept: previous, unit and frequency take values the constructor accepts.  *)

\* parsers/macro.py is not a Python module: the condition of the second elif
\* of _determine_frequency lacks its closing parenthesis, and the import of
\* the module raises SyntaxError before any of its functions exists
MacroModuleCompiles == FALSE

MacroPage(panel, macro_class, rows) ==
    [panel |-> panel, macro_class |-> macro_class, rows |-> rows]

\* p in s, for two texts
ContainsText(s, p) ==
    \E i \in 1..(Len(s) - Len(p) + 1) : SubSeq(s, i, i + Len(p) - 1) = p

\* countries_to_parse: the name and the value of the CountryCode
countries_to_parse ==
    << <<<<"U", "n", "i", "t", "e", "d", " ", "S", "t", "a", "t", "e", "s">>,
         <<"U", "S">>>>,
       <<<<"U", "n", "i", "t", "e", "d", " ", "K", "i", "n", "g", "d", "o", "m">>,
         <<"U", "K">>>>,
       <<<<"E", "u", "r", "o", "p", "e", "a", "n", " ", "U", "n", "i", "o", "n">>,
         <<"E", "U">>>>,
       <<<<"E", "u", "r", "o", " ", "A", "r", "e", "a">>, <<"E", "U">>>>,
       <<<<"J", "a", "p", "a", "n">>, <<"J", "P">>>>,
       <<<<"C", "h", "i", "n", "a">>, <<"C", "N">>>>,
       <<<<"G", "e", "r", "m", "a", "n", "y">>, <<"D", "E">>>>,
       <<<<"F", "r", "a", "n", "c", "e">>, <<"F", "R">>>>,
       <<<<"I", "t", "a", "l", "y">>, <<"I", "T">>>>,
       <<<<"S", "p", "a", "i", "n">>, <<"E", "S">>>>,
       <<<<"C", "a", "n", "a", "d", "a">>, <<"C", "A">>>>,
       <<<<"A", "u", "s", "t", "r", "a", "l", "i", "a">>, <<"A", "U">>>>,
       <<<<"B", "r", "a", "z", "i", "l">>, <<"B", "R">>>>,
       <<<<"I", "n", "d", "i", "a">>, <<"I", "N">>>> >>

CountryCodes == {countries_to_parse[i][2] : i \in DOMAIN countries_to_parse}

\* macro._find_macro_table: the table that holds the name of the country in
\* a header cell or in any text, else the element of a macro class
find_macro_table(page, country) ==
    IF ~page.panel THEN None
    ELSE IF \E r \in DOMAIN page.rows : \E c \in DOMAIN page.rows[r] :
                ContainsText(Lower(page.rows[r][c]), Lower(country))
    THEN Some(page.rows)
    ELSE IF page.macro_class THEN Some(page.rows)
    ELSE None

\* macro._extract_indicator_row
extract_indicator_row(cells) ==
    IF Len(cells) >= 2
    THEN [name |-> Strip(cells[1]), value |-> Strip(cells[2])]
    ELSE [name |-> << >>, value |-> << >>]

\* the keys of the mappings of _clean_indicator_name that a text of the
\* model can be, with their values
clean_indicator_name(name) ==
    IF Lower(Strip(name)) = <<"p", "p", "i">>
    THEN <<"P", "r", "o", "d", "u", "c", "e", "r", " ", "P", "r", "i", "c", "e",
           " ", "I", "n", "d", "e", "x">>
    ELSE IF Lower(Strip(name))
            = <<"c", "p", "i", " ", "i", "n", "f", "l", "a", "t", "i", "o", "n">>
    THEN <<"I", "n", "f", "l", "a", "t", "i", "o", "n", " ", "R", "a", "t", "e">>
    ELSE Strip(name)

\* MacroIndicator(country=..., indicator_name=..., value=...)
MacroIndicator(country, indicator_name, value) ==
    IF Len(indicator_name) < 1 \/ Len(indicator_name) > 100
    THEN ValidationError
    ELSE Some([country |-> country, indicator_name |-> Strip(indicator_name),
               value |-> value])

\* the loop of parse_country_macro over the rows of the table
RECURSIVE country_rows(_, _, _)
country_rows(rows, country_code, indicators) ==
    IF rows = << >> THEN indicators
    ELSE LET extracted == extract_indicator_row(Head(rows))
             made == MacroIndicator(country_code,
                                    clean_indicator_name(extracted.name),
                                    macro_parse_indicator_value(extracted.value))
         IN IF extracted.name = << >> \/ extracted.value = << >> \/ made = ValidationError
            THEN country_rows(Tail(rows), country_code, indicators)
            ELSE country_rows(Tail(rows), country_code, indicators \o made)

\* macro.parse_country_macro
parse_country_macro(page, country, country_code) ==
    LET table == find_macro_table(page, country)
    IN IF table = None THEN << >> ELSE country_rows(table[1], country_code, << >>)

\* Strategy 1 of parse_macro_indicators, over countries_to_parse from i on
RECURSIVE individual_tables(_, _, _)
individual_tables(page, i, result) ==
    IF i > Len(countries_to_parse) THEN result
    ELSE LET country_code == countries_to_parse[i][2]
             indicators == parse_country_macro(page, countries_to_parse[i][1],
                                               country_code)
         IN individual_tables(page, i + 1,
                IF indicators # << >>
                THEN [result EXCEPT ![country_code] = indicators] ELSE result)

\* the first entry of countries_to_parse whose name or code is in the text of
\* the first cell, 0 without one
MatchedCountry(country_text) ==
    LET hits == {i \in DOMAIN countries_to_parse :
                    \/ ContainsText(Lower(country_text),
                                    Lower(countries_to_parse[i][1]))
                    \/ ContainsText(Lower(country_text),
                                    Lower(countries_to_parse[i][2]))}
    IN IF hits = {} THEN 0 ELSE CHOOSE i \in hits : \A j \in hits : i <= j

\* Strategy 2: the cells of one country row of the matrix, from cell i on:
\* the result, and whether a constructor raised
RECURSIVE matrix_cells(_, _, _, _, _)
matrix_cells(cells, indicator_names, code, i, result) ==
    IF i > Len(cells) \/ i > Len(indicator_names)
    THEN [result |-> result, raised |-> FALSE]
    ELSE LET value == macro_parse_indicator_value(Strip(cells[i]))
             made == MacroIndicator(code, indicator_names[i], value)
         IN IF value = None
            THEN matrix_cells(cells, indicator_names, code, i + 1, result)
            ELSE IF made = ValidationError
            THEN [result |-> result, raised |-> TRUE]
            ELSE matrix_cells(cells, indicator_names, code, i + 1,
                              [result EXCEPT ![code] = @ \o made])

\* Strategy 2: the rows of the matrix after the header; an exception leaves
\* the table, with what was appended before it
RECURSIVE matrix_rows(_, _, _)
matrix_rows(rows, indicator_names, result) ==
    IF rows = << >> THEN result
    ELSE LET cells == Head(rows)
             m == IF Len(cells) < 2 THEN 0 ELSE MatchedCountry(Strip(cells[1]))
             after == matrix_cells(Tail(cells), indicator_names,
                                   countries_to_parse[m][2], 1, result)
         IN IF m = 0 THEN matrix_rows(Tail(rows), indicator_names, result)
            ELSE IF after.raised THEN after.result
            ELSE matrix_rows(Tail(rows), indicator_names, after.result)

\* macro.parse_macro_indicators
parse_macro_indicators(page) ==
    LET empty == [code \in CountryCodes |-> << >>]
        individual == individual_tables(page, 1, empty)
    IN IF individual # empty THEN individual
       ELSE IF ~page.panel \/ Len(page.rows) < 2 THEN individual
       ELSE matrix_rows(Tail(page.rows),
                        [i \in 1..(Len(page.rows[1]) - 1) |->
                            Strip(page.rows[1][i + 1])],
                        individual)

---------------------------------------------------------------------------
(* The row locators, on documents that hold more than one place to look    *)
(* in.  A document of tables has panel, whether an element bears one of    *)
(* the ids of the locator, and its tables in document order.  Of a table   *)
(* the model keeps in_panel, whether it lies in that element, class_match, *)
(* whether its class attribute holds one of the words of the locator,      *)
(* in_selector, whether it lies in an element of the class the selector    *)
(* pattern names, and the rows of its body.                                *)

Table(in_panel, class_match, in_selector, rows) ==
    [in_panel |-> in_panel, class_match |-> class_match,
     in_selector |-> in_selector, rows |-> rows]

Document(panel, tables) == [panel |-> panel, tables |-> tables]

Range(s) == {s[i] : i \in DOMAIN s}

RECURSIVE Concat(_)
\* rows.extend(...) over a sequence of sequences
Concat(seqs) ==
    IF seqs = << >> THEN << >> ELSE Head(seqs) \o Concat(Tail(seqs))

\* the rows, in document order, of the tables a test holds of
RowsOfTables(tables, keep) ==
    Concat([i \in DOMAIN tables |->
               IF tables[i] \in keep THEN tables[i].rows ELSE << >>])

\* panel.select('tbody tr.row-data, tbody tr')
PanelRows(doc) == RowsOfTables(doc.tables, {t \in Range(doc.tables) : t.in_panel})

\* soup.find_all('table', class_=...)
ClassTables(doc) == SelectSeq(doc.tables, LAMBDA t : t.class_match)

\* soup.select('.etf-table tbody tr, #etfs tbody tr')
SelectorRows(doc) ==
    RowsOfTables(doc.tables, {t \in Range(doc.tables) : t.in_selector \/ t.in_panel})

\* soup.select('table tbody tr')
AllRows(doc) == Concat([i \in DOMAIN doc.tables |-> doc.tables[i].rows])

\* the symbols of the fallback of _find_etf_rows and _find_derivatives_rows
\* that the texts of the model can hold
etf_symbols == {<<"S", "P", "Y">>}
deriv_symbols == {<<"S", "P", "Y">>, <<"E", "U">>, <<"G", "C">>}

\* cells and cells[0].get_text(strip=True).upper() in etf_symbols
IsEtfSymbolRow(row) ==
    row.cells # << >> /\ Upper(Strip(row.cells[1])) \in etf_symbols

\* any(sym in symbol_text for sym in deriv_symbols)
IsDerivSymbolRow(row) ==
    /\ row.cells # << >>
    /\ \E sym \in deriv_symbols : ContainsText(Upper(Strip(row.cells[1])), sym)

\* etfs._find_etf_rows
find_etf_rows(doc) ==
    IF doc.panel THEN PanelRows(doc)
    ELSE IF ClassTables(doc) # << >>
    THEN Concat([i \in DOMAIN ClassTables(doc) |-> ClassTables(doc)[i].rows])
    ELSE IF SelectorRows(doc) # << >> THEN SelectorRows(doc)
    ELSE SelectSeq(AllRows(doc), IsEtfSymbolRow)

\* derivatives._find_derivatives_rows
find_derivatives_rows(doc) ==
    IF doc.panel THEN PanelRows(doc)
    ELSE IF ClassTables(doc) # << >>
    THEN Concat([i \in DOMAIN ClassTables(doc) |-> ClassTables(doc)[i].rows])
    ELSE IF SelectorRows(doc) # << >> THEN SelectorRows(doc)
    ELSE SelectSeq(AllRows(doc), IsDerivSymbolRow)

(* A document of news has articles, its article tags; classed, for each of *)
(* the headline classes in the order of the list the elements whose class  *)
(* holds it; headings, its h1, h2 and h3 tags, each with whether it holds  *)
(* a link, whether its text is longer than 10 characters, and its nearest  *)
(* div, section, article or li; sections, for each text that holds "news"  *)
(* the containers of the links of its parent; links, the containers of the *)
(* links whose href looks like that of an article.  A container is << >>   *)
(* where the link has none.                                                *)

NewsDocument(articles, classed, headings, sections, links) ==
    [articles |-> articles, classed |-> classed, headings |-> headings,
     sections |-> sections, links |-> links]

Heading(link, long, parent) == [link |-> link, long |-> long, parent |-> parent]

RECURSIVE Containers(_, _)
\* if container and container not in containers: containers.append(container)
Containers(found, containers) ==
    IF found = << >> THEN containers
    ELSE Containers(Tail(found),
                    IF Head(found) # None /\ Head(found)[1] \notin Range(containers)
                    THEN Append(containers, Head(found)[1]) ELSE containers)

\* the limit of the links taken of a section and of the document
LinkLimit == 5

\* Strategy 2: the elements of the first class of the list that has some
ClassedElements(classed) ==
    LET hits == {i \in DOMAIN classed : classed[i] # << >>}
    IN IF hits = {} THEN << >>
       ELSE classed[CHOOSE i \in hits : \A j \in hits : i <= j]

\* Strategy 3: the parents of the headings with a link and a long text
HeadingParents(headings) ==
    Containers([i \in DOMAIN headings |->
                   IF headings[i].link /\ headings[i].long
                   THEN headings[i].parent ELSE None], << >>)

\* Strategy 4: the containers of the first section that has links and
\* gives some
SectionContainers(sections) ==
    LET of(i) == Containers(Slice(sections[i], 0, LinkLimit), << >>)
        hits == {i \in DOMAIN sections : of(i) # << >>}
    IN IF hits = {} THEN << >>
       ELSE of(CHOOSE i \in hits : \A j \in hits : i <= j)

\* headlines._find_headline_articles, on a document of news
headline_articles(doc) ==
    IF doc.articles # << >> THEN doc.articles
    ELSE IF ClassedElements(doc.classed) # << >> THEN ClassedElements(doc.classed)
    ELSE IF HeadingParents(doc.headings) # << >> THEN HeadingParents(doc.headings)
    ELSE IF SectionContainers(doc.sections) # << >>
    THEN SectionContainers(doc.sections)
    ELSE Containers(Slice(doc.links, 0, LinkLimit), << >>)

Locators ==
    {"_find_instrument_rows", "_find_etf_rows", "_find_derivatives_rows",
     "_find_headline_articles"}

\* the call of a locator on a document
Locate(fn, doc) ==
    CASE fn = "_find_instrument_rows" -> find_instrument_rows(doc)
      [] fn = "_find_etf_rows" -> find_etf_rows(doc)
      [] fn = "_find_derivatives_rows" -> find_derivatives_rows(doc)
      [] fn = "_find_headline_articles" -> headline_articles(doc)

---------------------------------------------------------------------------
(* A function of the extraction engine called on its own: the function and *)
(* its argument are chosen at the start, and the call gives its result.     *)

\* the normalisers, by module
Normalizers ==
    {"markets._parse_price", "markets._parse_percentage", "etfs._parse_price",
     "etfs._parse_percentage", "derivatives._parse_price",
     "derivatives._parse_change", "derivatives._parse_percentage",
     "macro._parse_number", "macro._parse_indicator_value"}

\* the module a function is of
ModuleOf(fn) ==
    CASE fn \in {"markets._parse_price", "markets._parse_percentage"} -> "markets"
      [] fn \in {"etfs._parse_price", "etfs._parse_percentage"} -> "etfs"
      [] fn \in {"derivatives._parse_price", "derivatives._parse_change",
                 "derivatives._parse_percentage"} -> "derivatives"
      [] fn \in {"macro._parse_number", "macro._parse_indicator_value",
                 "parse_country_macro", "parse_macro_indicators"} -> "macro"
      [] OTHER -> ""

\* the body of a normaliser on a text
Normalize(fn, text) ==
    CASE fn = "markets._parse_price" -> markets_parse_price(text)
      [] fn = "markets._parse_percentage" -> markets_parse_percentage(text)
      [] fn = "etfs._parse_price" -> etfs_parse_price(text)
      [] fn = "etfs._parse_percentage" -> etfs_parse_percentage(text)
      [] fn = "derivatives._parse_price" -> derivatives_parse_price(text)
      [] fn = "derivatives._parse_change" -> derivatives_parse_change(text)
      [] fn = "derivatives._parse_percentage" -> derivatives_parse_percentage(text)
      [] fn = "macro._parse_number" -> macro_parse_number(text)
      [] fn = "macro._parse_indicator_value" -> macro_parse_indicator_value(text)

MarketParsers ==
    {"parse_forex", "parse_indexes", "parse_commodities", "parse_bonds",
     "parse_crypto", "parse_stocks", "parse_etfs", "parse_derivatives"}

\* the body of the loop of a market parser on one row
RowOf(parser, row) ==
    CASE parser = "parse_forex" -> forex_row(row)
      [] parser = "parse_indexes" -> indexes_row(row)
      [] parser = "parse_commodities" -> commodities_row(row)
      [] parser = "parse_bonds" -> bonds_row(row)
      [] parser = "parse_crypto" -> crypto_row(row)
      [] parser = "parse_stocks" -> stocks_row(row)
      [] parser = "parse_etfs" -> etfs_row(row)
      [] parser = "parse_derivatives" -> derivatives_row(row)

\* for row in rows: ... instruments.append(...)
RECURSIVE parse_rows(_, _, _)
parse_rows(parser, rows, instruments) ==
    IF rows = << >> THEN instruments
    ELSE parse_rows(parser, Tail(rows), instruments \o RowOf(parser, Head(rows)))

\* a market parser on a page
parse_market(parser, page) ==
    IF parser \in {"parse_etfs", "parse_derivatives"}
    THEN parse_rows(parser, find_table_rows(page), << >>)
    ELSE parse_rows(parser, find_instrument_rows(page), << >>)

\* for element in headline_elements[:limit]: ... articles.append(article)
RECURSIVE headline_rows(_, _, _)
headline_rows(elements, today, articles) ==
    IF elements = << >> THEN articles
    ELSE headline_rows(Tail(elements), today,
                       articles \o extract_article_from_element(Head(elements), today))

\* headlines.parse_headlines, with the default limit
parse_headlines(page, today) ==
    headline_rows(Slice(find_headline_articles(page), 0, HeadlineLimit), today, << >>)

Argument(page, today, country) == [page |-> page, today |-> today, country |-> country]

\* what a call gives: the value it returns, or the exception it raises
Returned(value) == [raised |-> "", value |-> value]
Raised(e) == [raised |-> e, value |-> << >>]

\* what the call of fn on arg gives
Apply(fn, arg, onBoundary) ==
    IF ModuleOf(fn) = "macro" /\ ~MacroModuleCompiles THEN Raised("SyntaxError")
    ELSE IF fn \in Normalizers THEN Returned(Normalize(fn, arg))
    ELSE IF fn \in Locators THEN Returned(Locate(fn, arg))
    ELSE IF fn = "MarketInstrument"
    THEN IF MarketInstrumentRounding(arg, onBoundary) = ValidationError
         THEN Raised("ValidationError")
         ELSE Returned(MarketInstrumentRounding(arg, onBoundary))
    ELSE IF fn \in MarketParsers THEN Returned(parse_market(fn, arg.page))
    ELSE IF fn = "parse_headlines"
    THEN Returned(parse_headlines(arg.page, arg.today))
    ELSE IF fn = "parse_country_macro"
    THEN Returned(parse_country_macro(arg.page, countries_to_parse[arg.country][1],
                                      countries_to_parse[arg.country][2]))
    ELSE Returned(parse_macro_indicators(arg.page))

CallFunction ==
    /\ calledFn # ""
    /\ callResult = << >>
    /\ \E onBoundary \in BOOLEAN :
           callResult' = <<Apply(calledFn, calledArg, onBoundary)>>
    /\ UNCHANGED <<calledFn, calledArg, clientVars, robotsVars, pipelineVars,
                   contextVars>>

NextCall == CallFunction

\* the start of a call of fn on arg
InitCall(fns, args) ==
    /\ ClientInit
    /\ NoQuestion
    /\ PipelineIdle
    /\ ClientEntered
    /\ calledFn \in fns
    /\ calledArg \in args
    /\ callResult = << >>

---------------------------------------------------------------------------
(* The normalisers on the texts of cells.                                   *)

NumberTexts ==
    {<<"$", "1", ",", "2", "3", "4", ".", "5", "0">>,
     <<"(", "3", ".", "2", ")">>,
     <<UMinus, "1", ".", "5", "%">>,
     <<"n", "/", "a">>,
     <<"1", ".", "0", "8", "5", "0">>,
     <<"0", ".", "2", "3", "%">>,
     <<"+", "0", ".", "0", "0", "2", "5">>,
     <<"-", "1", ".", "5">>,
     <<>>,
     <<" ", "2", ".", "4", " ">>,
     <<"1", "5", "0", "%">>,
     <<EnDash, "0", ".", "5">>,
     <<Euro, " ", "1", "2">>,
     <<"3", ".", "1", " ", "%">>}

InitNumbers == InitCall(Normalizers, NumberTexts)

SpecNumbers == InitNumbers /\ [][NextCall]_vars

---------------------------------------------------------------------------
(* The parsers on pages of at most MaxRows rows, and the constructor of    *)
(* MarketInstrument on candidates.                                         *)

MaxRows == 2

\* texts of cells
EurUsd == <<"E", "U", "R", "/", "U", "S", "D">>
SandP == <<"S", "&", "P">>
Gold == <<"G", "o", "l", "d">>
Spy == <<"S", "P", "Y">>
Spdr == <<"S", "P", "D", "R">>
PriceText == <<"1", ".", "0", "8", "5", "0">>
EtfPriceText == <<"4", "5", "0", ".", "2", "5">>
NotAvailableText == <<"n", "/", "a">>
ChangeText == <<"0", ".", "0", "0", "2", "5">>
EtfChangeText == <<"1", ".", "2", "0">>
PercentText == <<"0", ".", "2", "3", "%">>
EtfPercentText == <<"0", ".", "2", "7", "%">>
LargePercentText == <<"1", "5", "0", "%">>

\* rows of four cells (name, price, change, percent), of five (symbol, name,
\* price, change, percent), of one, of three (no percent), and one with a
\* data-symbol attribute
MarketRows ==
    {Row(<<name, price, ChangeText, pct>>, None) :
        name \in {EurUsd, SandP}, price \in {PriceText, NotAvailableText},
        pct \in {PercentText, LargePercentText}}
    \union {Row(<<Spy, Spdr, EtfPriceText, EtfChangeText, pct>>, None) :
                pct \in {EtfPercentText, LargePercentText}}
    \union {Row(<<EurUsd>>, None), Row(<<EurUsd, PriceText, ChangeText>>, None),
            Row(<<Gold, PriceText, ChangeText, PercentText>>, Some(<<"X", "A", "U">>))}

MarketPages ==
    {Page(TRUE, rows) : rows \in SeqsUpTo(MarketRows, MaxRows)}
    \union {Page(FALSE, << >>)}

\* elements of a news page
LongTitle == <<"F", "e", "d", " ", "h", "o", "l", "d", "s">>
ShortTitle == <<"N", "e", "w", "s">>

Stamps ==
    {<< >>, << <<"yesterday">> >>, << <<"2", "days", "ago">> >>,
     << <<"2024-01-15">> >>, << <<"soon">>, <<"2", "hours", "ago">> >>}

Hrefs == {None, Some(<<"/", "news", "/", "1">>), Some(<<"https://", "bad host">>)}

NewsElements ==
    {Element(title, href, stamps) :
        title \in {LongTitle, ShortTitle}, href \in Hrefs, stamps \in Stamps}

NewsPages ==
    {Page(TRUE, rows) : rows \in SeqsUpTo(NewsElements, MaxRows)}
    \union {Page(FALSE, << >>)}

\* the days of the month of the wall clock
Days == 1..3

\* rows of a macro table
UnitedStates == countries_to_parse[1][1]
GdpGrowth == <<"G", "D", "P", " ", "G", "r", "o", "w", "t", "h">>
InflationRate == <<"I", "n", "f", "l", "a", "t", "i", "o", "n", " ", "R", "a", "t", "e">>

CpiInflation == <<"c", "p", "i", " ", "i", "n", "f", "l", "a", "t", "i", "o", "n">>
Australia == countries_to_parse[12][1]
Russia == <<"R", "u", "s", "s", "i", "a">>
Mexico == <<"M", "e", "x", "i", "c", "o">>

MacroRows ==
    {<<EmptyText, GdpGrowth, InflationRate>>,
     <<EmptyText, GdpGrowth, CpiInflation>>,
     <<UnitedStates, <<"2", ".", "4">>, <<"3", ".", "1">> >>,
     <<countries_to_parse[1][2], <<"2", ".", "4">>, <<"3", ".", "1">> >>,
     <<Australia, <<"2", ".", "4">>, <<"3", ".", "1">> >>,
     <<Australia, EmptyText, <<"3", ".", "1">> >>,
     <<Russia, <<"2", ".", "4">>, <<"3", ".", "1">> >>,
     <<Mexico, <<"2", ".", "4">>, <<"3", ".", "1">> >>,
     <<UnitedStates>>,
     <<GdpGrowth, <<"2", ".", "4">> >>,
     <<CpiInflation, <<"3", ".", "1">> >>,
     <<NotAvailableText>>}

MacroPages ==
    {MacroPage(TRUE, macro_class, rows) :
        macro_class \in BOOLEAN, rows \in SeqsUpTo(MacroRows, MaxRows)}
    \union {MacroPage(FALSE, FALSE, << >>)}

\* candidates given to the constructor of MarketInstrument: the value is
\* 100, the change absent, 0.25 or 5, the previous close absent, 0 or 100
Hundred == 100 * Scale

Candidates ==
    {Candidate(symbol, EurUsd, Some(Hundred), change, pct_change, "forex",
               previous_close) :
        symbol \in {Remove(EurUsd, "/"), SandP},
        change \in {None, Some(2500), Some(5 * Scale)},
        pct_change \in {None, Some(2500), Some(2600), Some(3000), Some(Scale),
                        Some(Hundred), Some(Hundred + 1), Some(0 - Hundred),
                        Some(0 - Hundred - 1), Some(150 * Scale)},
        previous_close \in {None, Some(0), Some(Hundred)}}

ParserCalls ==
    {<<fn, Argument(page, 1, 0)>> : fn \in MarketParsers, page \in MarketPages}
    \union {<<"MarketInstrument", c>> : c \in Candidates}
    \union {<<"parse_headlines", Argument(page, today, 0)>> :
                page \in NewsPages, today \in Days}
    \union {<<"parse_macro_indicators", Argument(page, 1, 0)>> : page \in MacroPages}
    \union {<<"parse_country_macro", Argument(page, 1, country)>> :
                page \in MacroPages, country \in {1, 5}}

InitParsers ==
    /\ ClientInit
    /\ NoQuestion
    /\ PipelineIdle
    /\ ClientEntered
    /\ \E c \in ParserCalls : calledFn = c[1] /\ calledArg = c[2]
    /\ callResult = << >>

SpecParsers == InitParsers /\ [][NextCall]_vars

---------------------------------------------------------------------------
(* The row locators on documents of at most MaxTables tables, and on       *)
(* documents of news.                                                      *)

MaxTables == 2

SpyRow == Row(<<Spy, Spdr, EtfPriceText, EtfChangeText, EtfPercentText>>, None)
GoldRow == Row(<<Gold, PriceText, ChangeText, PercentText>>, None)
EurUsdRow == Row(<<EurUsd, PriceText, ChangeText, PercentText>>, None)

TableBodies == {<< >>, <<SpyRow>>, <<GoldRow, EurUsdRow>>}

Tables ==
    {Table(in_panel, class_match, in_selector, rows) :
        in_panel \in BOOLEAN, class_match \in BOOLEAN, in_selector \in BOOLEAN,
        rows \in TableBodies}

\* a table lies in the element of the id only where there is one
Documents ==
    {d \in {Document(panel, tables) :
               panel \in BOOLEAN, tables \in SeqsUpTo(Tables, MaxTables)} :
        \A i \in DOMAIN d.tables : d.tables[i].in_panel => d.panel}

FirstElement == Element(LongTitle, Some(<<"/", "news", "/", "1">>), << >>)
SecondElement == Element(LongTitle, None, << >>)

\* the number of the headline classes of _find_headline_articles
NumHeadlineClasses == 9

NewsDocuments ==
    {NewsDocument(articles, classed, headings, sections, links) :
        articles \in {<< >>, <<FirstElement>>},
        classed \in {[i \in 1..NumHeadlineClasses |-> << >>],
                     [i \in 1..NumHeadlineClasses |->
                         IF i = 2 THEN <<SecondElement>>
                         ELSE IF i = 6 THEN <<FirstElement, SecondElement>>
                         ELSE << >>]},
        headings \in {<< >>,
                      <<Heading(FALSE, TRUE, Some(FirstElement))>>,
                      <<Heading(TRUE, TRUE, None)>>,
                      <<Heading(TRUE, TRUE, Some(SecondElement)),
                        Heading(TRUE, FALSE, Some(FirstElement)),
                        Heading(TRUE, TRUE, Some(SecondElement))>>},
        sections \in {<< >>, << << >> >>,
                      << <<None>>, <<Some(SecondElement), Some(FirstElement),
                                     Some(SecondElement)>> >>},
        links \in {<< >>, <<None>>, <<Some(FirstElement), Some(SecondElement)>>}}

LocatorCalls ==
    {<<"_find_instrument_rows", page>> : page \in MarketPages}
    \union {<<fn, doc>> : fn \in {"_find_etf_rows", "_find_derivatives_rows"},
                          doc \in Documents}
    \union {<<"_find_headline_articles", doc>> : doc \in NewsDocuments}

InitLocators ==
    /\ ClientInit
    /\ NoQuestion
    /\ PipelineIdle
    /\ ClientEntered
    /\ \E c \in LocatorCalls : calledFn = c[1] /\ calledArg = c[2]
    /\ callResult = << >>

SpecLocators == InitLocators /\ [][NextCall]_vars

---------------------------------------------------------------------------
(* The ScrapingClient as a context manager: __aenter__, __aexit__, and a   *)
(* scrape() call made while self._client is not set.                       *)

NotInitialized == [kind |-> "ScraperError: Client not initialized", status |-> 0]

\* __aenter__, lines 190-196
AEnter ==
    /\ ~ clientOpen
    /\ clientOpen' = TRUE
    /\ UNCHANGED <<fallback, loaded, clientVars, robotsVars, pipelineVars, callVars>>

\* __aexit__, lines 198-200, when the body of the async with has ended
AExit ==
    /\ clientOpen
    /\ \A t \in Tasks : pc[t] = "idle"
    /\ clientOpen' = FALSE
    /\ UNCHANGED <<fallback, loaded, clientVars, robotsVars, pipelineVars, callVars>>

\* scrape(url), lines 246-247: the call raises ScraperError at once
ScrapeUninitialized(t, u, limit) ==
    /\ ~ ClientInitialized
    /\ pc[t] = "idle"
    /\ nCalls[t] < limit
    /\ nCalls' = [nCalls EXCEPT ![t] = @ + 1]
    /\ prev' = [prev EXCEPT ![t] = [host |-> call[t].url.host, firstGet |-> call[t].firstGet]]
    /\ call' = [call EXCEPT ![t] = [NewCall(u) EXCEPT !.outcome = NotInitialized]]
    /\ UNCHANGED <<now, cache, lastRequest, pc, attempt, wakeAt, sentAt, leaveLog,
                   robotsReqs, besideClient>>

\* a ScrapingClient that was constructed and not entered
InitContext ==
    /\ ClientInit
    /\ NoQuestion
    /\ PipelineIdle
    /\ NoFunctionCalled
    /\ clientOpen = FALSE
    /\ fallback = "none"
    /\ loaded = {}

NextContext ==
    \/ AEnter
    \/ AExit
    \/ \E u \in Urls : ScrapeStart(Caller, u, MaxFetches)
    \/ \E u \in Urls : ScrapeUninitialized(Caller, u, MaxFetches)
    \/ \E s \in RobotsStatuses, f \in RobotsFiles : RobotsResponse(Caller, s, f)
    \/ RateLimiterWake(Caller)
    \/ \E s \in FinalStatuses : GetResponse(Caller, s)
    \/ Tick

SpecContext == InitContext /\ [][NextContext]_vars

---------------------------------------------------------------------------
(* scrape_with_fallback: scrape_page on a client of its own, then          *)
(* scrape_with_playwright. loaded holds the URLs of the page.goto calls of *)
(* the present call of scrape_with_fallback.                               *)

FallbackEnded == fallback \in {"none", "returned", "raised"}

\* scrape_with_fallback, lines 622-624, and scrape_page, lines 278-279: __aenter__
\* and scrape() up to its first suspension
FallbackStart(u) ==
    /\ FallbackEnded
    /\ ~ clientOpen
    /\ clientOpen' = TRUE
    /\ fallback' = "static"
    /\ loaded' = {}
    /\ ScrapeBegin(Caller, u, MaxFetches)
    /\ UNCHANGED <<robotsVars, pipelineVars, callVars>>

\* scrape_with_fallback, lines 624-640: scrape_page has returned or raised (the
\* __aexit__ of its client included); selectors_to_check is given or not, and the
\* static HTML holds one of them or not
StaticEnds(selectors_to_check, has_content) ==
    /\ fallback = "static"
    /\ pc[Caller] = "idle"
    /\ clientOpen' = FALSE
    /\ fallback' = IF call[Caller].outcome = Html
                   THEN IF selectors_to_check /\ ~ has_content
                        THEN "playwright"
                        ELSE "returned"
                   ELSE "playwright"
    /\ UNCHANGED <<loaded, clientVars, robotsVars, pipelineVars, callVars>>

\* scrape_with_playwright as scrape_with_fallback calls it, lines 643-654 and
\* 521-570: html_content is the static HTML when scrape_page returned one; the
\* browser starts or not, and page.goto and what follows it raise or not
PlaywrightEnds(wait_for_selectors, has_content, browser_starts, page_loads) ==
    /\ fallback = "playwright"
    /\ LET html_content == call[Caller].outcome = Html
       IN  IF html_content /\ wait_for_selectors /\ has_content
           THEN /\ fallback' = "returned"
                /\ UNCHANGED loaded
           ELSE IF ~ browser_starts
           THEN /\ fallback' = "raised"
                /\ UNCHANGED loaded
           ELSE /\ loaded' = loaded \union {call[Caller].url}
                /\ fallback' = IF page_loads THEN "returned" ELSE "raised"
    /\ UNCHANGED <<clientOpen, clientVars, robotsVars, pipelineVars, callVars>>

NextFallback ==
    \/ \E u \in Urls : FallbackStart(u)
    \/ \E s \in RobotsStatuses, f \in RobotsFiles : RobotsResponse(Caller, s, f)
    \/ RateLimiterWake(Caller)
    \/ \E s \in FinalStatuses : GetResponse(Caller, s)
    \/ Tick
    \/ \E selectors_to_check, has_content \in BOOLEAN :
          StaticEnds(selectors_to_check, has_content)
    \/ \E wait_for_selectors, has_content, browser_starts, page_loads \in BOOLEAN :
          PlaywrightEnds(wait_for_selectors, has_content, browser_starts, page_loads)

SpecFallback == InitContext /\ [][NextFallback]_vars

---------------------------------------------------------------------------
(* run_pipeline on the fetch client: the first MaxRunTasks tasks of        *)
(* fetch_all_markets are tasks of the client, and fetch_macro_data and     *)
(* fetch_headlines are the second and the third scrape() call of the main  *)
(* coroutine.  The market categories beyond MaxRunTasks end at once, with  *)
(* the error of a 404.                                                     *)

MaxRunTasks == 2

RunTasks == 1..MaxRunTasks

\* one status of each class: 2xx, 4xx, 5xx, and the network error
RunStatuses == {200, 404, 503, NetworkError}

\* a robots.txt without rules, and one that disallows /private
RunRobotsFiles ==
    { << >>,
      << [name |-> "User-agent", value |-> <<"*">>],
         [name |-> "Disallow", value |-> <<" ">> \o Private] >> }

\* DEFAULT_URLS: the page of the i-th scrape() call; every second one has a path
\* that the robots.txt files of the model may disallow
CategoryUrl(i) == [host |-> "a", path |-> IF i % 2 = 0 THEN PrivateX ELSE Forex]

\* the category of task t of fetch_all_markets
TaskKey(t) == MarketKeys[t]

\* the market categories that have no task in the model
OtherKeys == {MarketKeys[i] : i \in (DOMAIN MarketKeys) \ RunTasks}

NotCaught(o, c) ==
    IF o = Html
    THEN {r \in Runs(c) : r.raised = << >>}
    ELSE {}

\* fetch_market_data, fetch_macro_data, fetch_headlines: the ways the function
\* goes on after scrape() has ended with o: the parser returns or raises, or the
\* error of scrape() is caught
RunsAfter(o, c) ==
    IF o = Html
    THEN {r \in Runs(c) : r.raised \in {<< >>, <<ParserFault>>}}
    ELSE {[done |-> TRUE, raised |-> <<o>>, parsed |-> << >>]}

\* fetch_all_markets, lines 138-141: the tasks are created in the order of the
\* keys, and each runs up to the first suspension of its scrape()
RunTaskStart(t) ==
    /\ driver = "run_pipeline"
    /\ stage = "markets"
    /\ \A s \in RunTasks : s < t => nCalls[s] = 1
    /\ ScrapeStart(t, CategoryUrl(t), 1)

\* a market category that has no task in the model ends, in the order of the keys
RunOtherTaskEnds(k) ==
    /\ k \in OtherKeys
    /\ \A t \in RunTasks : nCalls[t] = 1
    /\ \A i, j \in DOMAIN MarketKeys :
          (i < j /\ MarketKeys[j] = k /\ MarketKeys[i] \in OtherKeys)
          => marketTasks[MarketKeys[i]] = "done"
    /\ MarketTaskEnds(k, [done |-> TRUE, raised |-> <<RequestFailed(404)>>, parsed |-> << >>])

\* the event loop looks at the network and at the timers when every task that
\* can run has run
TasksCreated ==
    /\ driver = "run_pipeline"
    /\ \A t \in RunTasks : nCalls[t] >= 1
    /\ \A k \in OtherKeys : marketTasks[k] = "done"

\* the scrape() of task t has ended, and fetch_market_data returns
RunTaskEnds(t, r) ==
    /\ pc[t] = "idle"
    /\ nCalls[t] = 1
    /\ TasksCreated
    /\ MarketTaskEnds(TaskKey(t), r)

\* fetch_macro_data and fetch_headlines call scrape(): calls 2 and 3 of the caller
RunScrapeStart ==
    /\ driver = "run_pipeline"
    /\ \/ stage = "macro" /\ nCalls[Caller] = 1
       \/ stage = "news" /\ nCalls[Caller] = 2
    /\ ScrapeStart(Caller, CategoryUrl(nCalls[Caller] + 1), 3)

RunMacroReturns(r) ==
    /\ pc[Caller] = "idle"
    /\ nCalls[Caller] = 2
    /\ FetchMacroReturns(r)

RunHeadlinesReturns(r) ==
    /\ pc[Caller] = "idle"
    /\ nCalls[Caller] = 3
    /\ FetchHeadlinesReturns(r)

\* time passes while a sleep is pending: here a request is answered in less than
\* the unit of time, and a sleep returns when it is due
RunWaits ==
    /\ TasksCreated
    /\ \A t \in Tasks : pc[t] \notin {"robots", "get"}
    /\ \E t \in Tasks : pc[t] \in {"rl_sleep", "backoff"}
    /\ \A t \in Tasks : pc[t] \in {"rl_sleep", "backoff"} => now < wakeAt[t]
    /\ TimePasses

NextRun ==
    \/ RunPipelineStart
    \/ \E t \in RunTasks : RunTaskStart(t)
    \/ \E k \in MarketSet : RunOtherTaskEnds(k)
    \/ \E t \in RunTasks, s \in RobotsStatuses, f \in RunRobotsFiles :
          TasksCreated /\ RobotsResponse(t, s, f)
    \/ \E t \in RunTasks : TasksCreated /\ RateLimiterWake(t)
    \/ \E t \in RunTasks, s \in RunStatuses : TasksCreated /\ GetResponse(t, s)
    \/ \E t \in RunTasks : TasksCreated /\ BackoffWake(t)
    \/ RunWaits
    \/ \E t \in RunTasks : \E r \in RunsAfter(call[t].outcome, TaskKey(t)) : RunTaskEnds(t, r)
    \/ FetchAllMarketsReturns
    \/ RunScrapeStart
    \/ \E r \in RunsAfter(call[Caller].outcome, "macro") : RunMacroReturns(r)
    \/ \E r \in RunsAfter(call[Caller].outcome, "news") : RunHeadlinesReturns(r)

\* every network call and every sleep returns, and the event loop runs what can run
FairRun == WF_vars(NextRun)

SpecRun == Init /\ [][NextRun]_vars /\ FairRun

---------------------------------------------------------------------------
(* Properties of the fetch client.                                         *)

Finished(t) == call[t].started /\ pc[t] = "idle"

\* the file has a line "Disallow: /private"
HasDisallowPrivate(content) ==
    \E i \in DOMAIN content :
        content[i].name = "Disallow" /\ Strip(content[i].value) = Private

\* the call of task t got a policy parsed from a robots.txt that has the line
\* "Disallow: /private", for a URL whose path starts with /private
BlockedCase(t) ==
    /\ call[t].policy
    /\ call[t].origin # << >>
    /\ HasDisallowPrivate(call[t].origin[1])
    /\ StartsWith(call[t].url.path, Private)

\* C1: a scrape() of a URL whose path starts with /private, under a robots.txt
\* with "Disallow: /private", fails with RobotsTxtError; the call never enters the
\* rate limiter and never sends a GET, and sends at most the robots.txt request.
C1_DisallowedPathIsNeverFetched ==
    \A t \in Tasks :
        BlockedCase(t) =>
            /\ Finished(t)
            /\ call[t].outcome = RobotsBlocked
            /\ call[t].rlWaits = 0
            /\ call[t].gets = 0
            /\ call[t].firstGet = 0
            /\ call[t].robotsReq <= 1

C1_Witness ==
    \E t \in Tasks :
        /\ BlockedCase(t)
        /\ call[t].robotsReq = 1
        /\ call[t].outcome = RobotsBlocked

\* C2: when a caller makes two scrape() calls to one host one after the other, the
\* first GET of the second call is sent at least RATE_LIMIT_DELAY after the first
\* GET of the first call.
C2_BackToBackFetchesAreSpaced ==
    \A t \in Tasks :
        ( /\ prev[t].firstGet > 0
          /\ call[t].firstGet > 0
          /\ prev[t].host = call[t].url.host )
        => call[t].firstGet - prev[t].firstGet >= RATE_LIMIT_DELAY

\* the second call had to sleep in the rate limiter, and left it when the delay was over
C2_Witness ==
    \E t \in Tasks :
        /\ prev[t].firstGet > 0
        /\ prev[t].host = call[t].url.host
        /\ call[t].firstGet = prev[t].firstGet + RATE_LIMIT_DELAY

\* C3: two tasks never leave RateLimiter.wait for one host less than
\* RATE_LIMIT_DELAY apart.
C3_TasksLeaveRateLimiterSpaced ==
    \A h \in Hosts : \A i, j \in DOMAIN leaveLog[h] :
        (i < j /\ leaveLog[h][i].task # leaveLog[h][j].task)
        => leaveLog[h][j].at - leaveLog[h][i].at >= RATE_LIMIT_DELAY

\* C4: a call all of whose GETs were answered with a 5xx or a network error makes
\* exactly MAX_RETRIES + 1 attempts and fails with "failed after retries"; a call
\* that was answered with a 2xx returns the page and makes no further attempt.
C4_RetriesAreExact ==
    \A t \in Tasks :
        /\ call[t].gets <= MAX_RETRIES + 1
        /\ (Finished(t) /\ call[t].gets > 0 /\ call[t].transient = call[t].gets)
           => /\ call[t].gets = MAX_RETRIES + 1
              /\ call[t].outcome = RetriesExhausted
        /\ call[t].ok > 0
           => /\ Finished(t)
              /\ call[t].outcome = Html
              /\ call[t].gets = call[t].transient + 1

\* every attempt failed
C4_Witness ==
    \E t \in Tasks :
        /\ Finished(t)
        /\ call[t].transient = MAX_RETRIES + 1
        /\ call[t].outcome = RetriesExhausted

\* C5: a GET answered with an error status that is not 5xx ends the call at once
\* with "HTTP <status>": no backoff sleep and no GET follows the answer.
C5_ClientErrorIsNotRetried ==
    \A t \in Tasks :
        call[t].errStatus # 0
        => /\ Finished(t)
           /\ call[t].outcome = RequestFailed(call[t].errStatus)
           /\ call[t].gets = call[t].transient + 1
           /\ Len(call[t].sleeps) = call[t].transient

\* a 429 that follows a retried answer
C5_Witness ==
    \E t \in Tasks :
        /\ call[t].errStatus = 429
        /\ call[t].transient > 0
        /\ Finished(t)

\* C6: when the robots.txt request is not answered with a 200, the policy has no
\* restriction, the call does not fail on robots.txt and goes on to the rate
\* limiter and to the GET.
C6_RobotsFailureIsFailOpen ==
    \A t \in Tasks :
        call[t].robotsFailed
        => /\ call[t].policy
           /\ call[t].disallowed = {}
           /\ call[t].outcome # RobotsBlocked
           /\ call[t].rlWaits = 1
           /\ (pc[t] = "rl_sleep" \/ call[t].gets >= 1)
           /\ cache[call[t].url.host].present

\* a URL under /private is fetched after robots.txt could not be read
C6_Witness ==
    \E t \in Tasks :
        /\ call[t].robotsFailed
        /\ StartsWith(call[t].url.path, Private)
        /\ call[t].outcome = Html

---------------------------------------------------------------------------
(* Properties of the robots.txt policy.                                    *)

\* the paths of the Disallow directives of a file
DisallowPathsOf(file) ==
    {Strip(file[i].value) : i \in {j \in DOMAIN file :
        LowerName(file[j].name) = "disallow" /\ Strip(file[j].value) # << >>}}

\* C7: is_allowed(path) is false exactly when path starts with the path of some
\* Disallow directive of the file, whatever the Allow directives.
C7_BlockedIffUnderDisallowedPath ==
    answer # << >>
    => (answer[1] = FALSE
        <=> \E d \in DisallowPathsOf(fileText) : StartsWith(askedPath, d))

---------------------------------------------------------------------------
(* Properties of the robots.txt cache.                                     *)

\* the cache entry of host h is younger than CACHE_TTL
Fresh(h) == cache[h].present /\ now - cache[h].last_checked < CACHE_TTL

\* the step starts a scrape() call, whose first act is the policy lookup
LookupStep(h) == nCalls'[Caller] = nCalls[Caller] + 1 /\ call'[Caller].url.host = h

\* the step answers the robots.txt request of the caller
AnswerStep(h) == pc[Caller] = "robots" /\ pc'[Caller] # "robots" /\ call[Caller].url.host = h

\* C8: a robots.txt request for a host is sent only when the cache has no entry for
\* it or the entry is at least CACHE_TTL old; a lookup within the TTL sends nothing,
\* leaves the cache alone and uses the cached policy; a lookup after expiry sends
\* exactly one request, whose answer replaces the entry of the host.
C8_RobotsFetchedOnlyOnMissOrExpiry ==
    [][ \A h \in Hosts :
          /\ robotsReqs'[h] # robotsReqs[h] => ~ Fresh(h) /\ LookupStep(h)
          /\ cache'[h] # cache[h] => AnswerStep(h)
          /\ (LookupStep(h) /\ Fresh(h))
             => /\ robotsReqs' = robotsReqs
                /\ cache' = cache
                /\ call'[Caller].robotsReq = 0
                /\ call'[Caller].policy
                /\ call'[Caller].disallowed = cache[h].disallowed
                /\ call'[Caller].origin = cache[h].origin
          /\ (LookupStep(h) /\ ~ Fresh(h))
             => /\ robotsReqs'[h] = robotsReqs[h] + 1
                /\ call'[Caller].robotsReq = 1
                /\ pc'[Caller] = "robots"
                /\ ~ call'[Caller].policy
          /\ AnswerStep(h)
             => /\ cache'[h].present
                /\ cache'[h].last_checked = now
                /\ call'[Caller].robotsReq = 1
                /\ call'[Caller].disallowed = cache'[h].disallowed
                /\ call'[Caller].origin = cache'[h].origin
                /\ robotsReqs' = robotsReqs ]_vars

\* three lookups for one host: a miss, a hit within the TTL, and a lookup after
\* expiry whose answer replaced the entry with a different policy
C8_Witness ==
    /\ nCalls[Caller] = 3
    /\ robotsReqs["a"] = 2
    /\ robotsReqs["b"] = 0
    /\ call[Caller].robotsReq = 1
    /\ call[Caller].policy
    /\ cache["a"].last_checked >= StartTime + CACHE_TTL
    /\ call[Caller].disallowed # {}
    /\ call[Caller].outcome = RobotsBlocked

---------------------------------------------------------------------------
(* Properties of the drivers.                                              *)

\* the entries of the aggregate error list that name category c
EntriesNaming(c) == {i \in DOMAIN outErrors : outErrors[i].category = c}

\* C9: when a driver has ended, every category was fetched, the aggregate error
\* list has exactly one entry naming each category whose fetch or parser raised,
\* and no entry for a category whose parser returned, records or none.
C9_CategoryFailureBecomesOneErrorEntry ==
    stage = "done"
    => \A c \in Categories :
          /\ ran[c].done
          /\ ran[c].raised # << >> => Cardinality(EntriesNaming(c)) = 1
          /\ ran[c].raised = << >> => EntriesNaming(c) = {}

\* the records the parser of category c returned for field f in this run: none
\* when the parser was not called or raised
ParsedFor(f) ==
    IF f \in MarketSet
    THEN IF ran[f].parsed = << >> THEN << >> ELSE ran[f].parsed[1]
    ELSE IF f \in NewsKeys
    THEN IF ran["news"].parsed = << >> THEN << >> ELSE ran["news"].parsed[1][f]
    ELSE LET c == CHOOSE k \in Countries : MacroField[k] = f
         IN  IF ran["macro"].parsed = << >> THEN << >> ELSE ran["macro"].parsed[1][c]

\* C10: when run_pipeline has ended, every category field of the output holds the
\* records the parser of its category returned in this run.
C10_OutputHoldsWhatTheParsersReturned ==
    (driver = "run_pipeline" /\ stage = "done")
    => \A f \in Fields : output[f] = ParsedFor(f)

\* the parser of the category of field f has returned in this run
ParserReturnedFor(f) ==
    IF f \in MarketSet THEN ran[f].parsed # << >>
    ELSE IF f \in NewsKeys THEN ran["news"].parsed # << >>
    ELSE ran["macro"].parsed # << >>

\* C11: when the run was interrupted, run_pipeline returns an output, and every
\* field whose parser had returned before the interruption holds the records that
\* parser returned.
C11_InterruptionKeepsAcceptedRecords ==
    stage \in {"interrupted", "aborted"}
    => /\ stage = "interrupted"
       /\ \A f \in Fields : ParserReturnedFor(f) => output[f] = ParsedFor(f)

\* the categories whose fetch or parser raised in this run
FailedCategories == {c \in Categories : ran[c].raised # << >>}

\* C12: a run of main() in which three or more categories failed exits with a
\* status other than 0; a run that returned an output with fewer than three error
\* messages exits with status 0.
C12_ExitStatusFollowsErrorCount ==
    exitStatus # << >>
    => /\ Cardinality(FailedCategories) >= ERROR_THRESHOLD => exitStatus[1] # 0
       /\ (stage # "aborted" /\ Len(outErrors) < ERROR_THRESHOLD) => exitStatus[1] = 0

---------------------------------------------------------------------------
(* Properties of the extraction engine.                                    *)

\* the texts of the examples of numeric normalization, and the number each
\* stands for
ExampleTexts ==
    {<<"$", "1", ",", "2", "3", "4", ".", "5", "0">>, <<"(", "3", ".", "2", ")">>,
     <<UMinus, "1", ".", "5", "%">>, <<"n", "/", "a">>}

ExampleValue(text) ==
    CASE text = <<"$", "1", ",", "2", "3", "4", ".", "5", "0">> -> Some(12345000)
      [] text = <<"(", "3", ".", "2", ")">> -> Some(0 - 32000)
      [] text = <<UMinus, "1", ".", "5", "%">> -> Some(0 - 15000)
      [] text = <<"n", "/", "a">> -> None

\* C18: in every module, a normaliser called on one of the example texts
\* ("$1,234.50", "(3.2)", U+2212 "1.5%", "n/a") gives the number the text
\* stands for (1234.50, -3.2, -1.5, absent), or gives the absent value while
\* another normaliser of the same module gives that number.
C18_NormalizationOfExamples ==
    (callResult # << >> /\ calledFn \in Normalizers /\ calledArg \in ExampleTexts)
    => \/ callResult[1] = Returned(ExampleValue(calledArg))
       \/ /\ callResult[1] = Returned(None)
          /\ \E g \in Normalizers :
                /\ ModuleOf(g) = ModuleOf(calledFn)
                /\ Apply(g, calledArg, FALSE) = Returned(ExampleValue(calledArg))

\* the call of a parser has returned or raised
ParserCalled(fns) == callResult # << >> /\ calledFn \in fns

\* the page of one row
SingleRow(row) == Page(TRUE, <<row>>)

\* the records a market parser gives for each row taken alone, in the order
\* of the rows
RECURSIVE RowByRow(_, _)
RowByRow(parser, rows) ==
    IF rows = << >> THEN << >>
    ELSE parse_market(parser, SingleRow(Head(rows))) \o RowByRow(parser, Tail(rows))

RECURSIVE ElementByElement(_, _)
ElementByElement(elements, today) ==
    IF elements = << >> THEN << >>
    ELSE parse_headlines(SingleRow(Head(elements)), today)
         \o ElementByElement(Tail(elements), today)

\* the parsers by the columns they expect: name, price, change, percent, or
\* symbol, name, price, change, percent
FourColumnParsers ==
    {"parse_forex", "parse_indexes", "parse_commodities", "parse_bonds", "parse_crypto"}
FiveColumnParsers == {"parse_stocks", "parse_etfs", "parse_derivatives"}

\* a percent text within [-100, 100]
IsPercentCell(text) ==
    /\ Contains(text, "%")
    /\ ParseFloat(Remove(text, "%")) # None
    /\ Abs(ParseFloat(Remove(text, "%"))[1]) <= 100 * Scale

\* a row that has the columns the parser expects, each well formed: a symbol
\* or name of valid characters, a plain number as price and as change, a
\* percent text in range
WellFormedRow(parser, row) ==
    LET cells == row.cells
        n == IF parser \in FiveColumnParsers THEN 5 ELSE 4
    IN /\ Len(cells) = n
       /\ row.data_symbol = None
       /\ SymbolIsValid(cells[1])
       /\ Len(cells[1]) <= 10
       /\ cells[n - 3] # << >>
       /\ ParseFloat(cells[n - 2]) # None
       /\ ParseFloat(cells[n - 1]) # None
       /\ IsPercentCell(cells[n])

\* C13: a domain parser called on a page does not raise; the list it returns
\* is the concatenation, in document order, of what it returns for each row
\* of the page taken alone; and only malformed or invalid rows are dropped: a
\* row that has the columns the parser expects, each well formed, gives a
\* record.
C13_RowsAreTakenOneByOne ==
    /\ ParserCalled(MarketParsers \union {"parse_headlines", "parse_country_macro"})
       => callResult[1].raised = ""
    /\ ParserCalled(MarketParsers)
       => /\ callResult[1].value = RowByRow(calledFn, calledArg.page.rows)
          /\ \A i \in DOMAIN calledArg.page.rows :
                WellFormedRow(calledFn, calledArg.page.rows[i])
                => parse_market(calledFn, SingleRow(calledArg.page.rows[i])) # << >>
    /\ ParserCalled({"parse_headlines"})
       => callResult[1].value = ElementByElement(calledArg.page.rows, calledArg.today)

\* a document with no recognizable rows: the element the row finder looks
\* for is not there, or holds no row
NoRows(page) == ~page.panel \/ page.rows = << >>

\* C14: on a document with no recognizable rows no parser raises: every
\* market parser and parse_headlines return the empty list, and
\* parse_macro_indicators returns a dict with no indicator for any country.
C14_EmptyDocumentGivesEmptyResult ==
    (callResult # << >>
       /\ calledFn \in MarketParsers \union {"parse_headlines", "parse_macro_indicators"}
       /\ NoRows(calledArg.page))
    => /\ callResult[1].raised = ""
       /\ calledFn # "parse_macro_indicators" => callResult[1].value = << >>
       /\ calledFn = "parse_macro_indicators"
          => \A code \in CountryCodes : callResult[1].value[code] = << >>

\* the table of the example: the header row ["", "GDP Growth", "Inflation
\* Rate"] and the data row ["United States", "2.4", "3.1"]
MatrixExample ==
    << <<EmptyText, GdpGrowth, InflationRate>>,
       <<UnitedStates, <<"2", ".", "4">>, <<"3", ".", "1">> >> >>

HasIndicator(indicators, name, value) ==
    \E i \in DOMAIN indicators :
        indicators[i].indicator_name = name /\ indicators[i].value = Some(value)

\* C15: parse_macro_indicators on a document whose only table is the matrix
\* of the example returns, under US, an indicator "GDP Growth" of value 2.4
\* and an indicator "Inflation Rate" of value 3.1.
C15_MatrixExampleGivesBothIndicators ==
    (callResult # << >> /\ calledFn = "parse_macro_indicators"
       /\ calledArg.page.panel /\ calledArg.page.rows = MatrixExample)
    => /\ callResult[1].raised = ""
       /\ HasIndicator(callResult[1].value[countries_to_parse[1][2]], GdpGrowth, 24000)
       /\ HasIndicator(callResult[1].value[countries_to_parse[1][2]], InflationRate, 31000)

\* a candidate that the field constraints accept
FieldsAreValid(c) ==
    /\ SymbolIsValid(c.symbol)
    /\ Len(c.name) >= 1
    /\ c.value # None
    /\ c.pct_change = None
       \/ (c.pct_change[1] >= 0 - 100 * Scale /\ c.pct_change[1] <= 100 * Scale)

\* |pct_change - change / previous_close * 100| <= 0.01
WithinTolerance(c) ==
    /\ c.previous_close[1] # 0
    /\ ToleranceCompare(c.pct_change[1], c.change[1], c.previous_close[1]) <= 0

\* C16: a candidate with change, percent-change and previous close all
\* present, and valid fields, is accepted if and only if
\* |percent-change - change / previous-close * 100| <= 0.01; so with value
\* 100, change 0.25 and previous close 100, the percent-change 0.30 is
\* rejected and 0.25 accepted.
C16_AcceptedIffConsistent ==
    (callResult # << >> /\ calledFn = "MarketInstrument"
       /\ FieldsAreValid(calledArg)
       /\ calledArg.change # None /\ calledArg.pct_change # None
       /\ calledArg.previous_close # None)
    => (callResult[1].raised = "" <=> WithinTolerance(calledArg))

\* the examples of C16 alone: 0.30 is rejected and 0.25 accepted
C16_Examples ==
    (callResult # << >> /\ calledFn = "MarketInstrument"
       /\ FieldsAreValid(calledArg)
       /\ calledArg.change = Some(2500) /\ calledArg.previous_close = Some(Hundred))
    => /\ calledArg.pct_change = Some(3000) => callResult[1].raised # ""
       /\ calledArg.pct_change = Some(2500) => callResult[1].raised = ""

\* a percent-change that is absent or within [-100, 100]
PctWithinRange(pct_change) ==
    pct_change = None
    \/ (pct_change[1] >= 0 - 100 * Scale /\ pct_change[1] <= 100 * Scale)

\* a row whose last cell is a percent text outside [-100, 100]
LastCellOutOfRange(row) ==
    LET text == row.cells[Len(row.cells)]
    IN /\ Contains(text, "%")
       /\ ParseFloat(Remove(text, "%")) # None
       /\ Abs(ParseFloat(Remove(text, "%"))[1]) > 100 * Scale

\* the parsers that take the percent-change from the last percent cell
\* (parse_indexes takes the first cell that reads as at most 10)
LastPercentParsers == MarketParsers \ {"parse_indexes"}

\* C17: an instrument the constructor accepts has a percent-change absent or
\* within [-100, 100], and so has every instrument of a list returned by a
\* market, ETF or derivatives parser; a row whose selected percent-change is
\* outside that range gives no record.
C17_PercentChangeIsBounded ==
    /\ (callResult # << >> /\ calledFn = "MarketInstrument"
          /\ callResult[1].raised = "")
       => PctWithinRange(callResult[1].value[1].pct_change)
    /\ ParserCalled(MarketParsers)
       => \A i \in DOMAIN callResult[1].value :
             PctWithinRange(callResult[1].value[i].pct_change)
    /\ (ParserCalled(LastPercentParsers) /\ Len(calledArg.page.rows) = 1
          /\ LastCellOutOfRange(calledArg.page.rows[1]))
       => callResult[1].value = << >>

\* parse_forex has returned for a page of a row of 150% followed by a row of
\* 0.23%: the record of the second row alone
C17_Witness ==
    /\ ParserCalled({"parse_forex"})
    /\ Len(calledArg.page.rows) = 2
    /\ LastCellOutOfRange(calledArg.page.rows[1])
    /\ calledArg.page.rows[1].cells[2] = PriceText
    /\ SymbolIsValid(calledArg.page.rows[1].cells[1])
    /\ Len(callResult[1].value) = 1
    /\ callResult[1].value[1].pct_change = Some(2300)

\* a forex row of four cells in the order pair, price, change, percent, each
\* of them readable
IsForexRow(row) ==
    /\ Len(row.cells) = 4
    /\ SymbolIsValid(Remove(row.cells[1], "/"))
    /\ ParseFloat(row.cells[2]) # None
    /\ ParseFloat(row.cells[3]) # None
    /\ IsPercentCell(row.cells[4])

\* C19: for a forex row whose cells are pair, price, change and
\* percent-change (EUR/USD, 1.0850, 0.0025, 0.23%), parse_forex gives an
\* instrument whose value is the price cell, whose change is the change cell
\* and whose pct_change is the percent cell.
C19_ForexRowFields ==
    (ParserCalled({"parse_forex"}) /\ Len(calledArg.page.rows) = 1
       /\ IsForexRow(calledArg.page.rows[1]))
    => /\ Len(callResult[1].value) = 1
       /\ Some(callResult[1].value[1].value) = ParseFloat(calledArg.page.rows[1].cells[2])
       /\ callResult[1].value[1].change = ParseFloat(calledArg.page.rows[1].cells[3])
       /\ callResult[1].value[1].pct_change
              = ParseFloat(Remove(calledArg.page.rows[1].cells[4], "%"))

\* C19 without the change: the value and the pct_change of the instrument
C19_ForexValueAndPercent ==
    (ParserCalled({"parse_forex"}) /\ Len(calledArg.page.rows) = 1
       /\ IsForexRow(calledArg.page.rows[1]))
    => /\ Len(callResult[1].value) = 1
       /\ Some(callResult[1].value[1].value) = ParseFloat(calledArg.page.rows[1].cells[2])
       /\ callResult[1].value[1].pct_change
              = ParseFloat(Remove(calledArg.page.rows[1].cells[4], "%"))

\* an element with a title of at least 5 characters and a usable link
HasTitleAndLink(element) ==
    /\ Len(Strip(element.title)) >= 5
    /\ element.href # None
    /\ element.href[1][1] = "/"

\* the text of a stamp names no time: no absolute date and no relative
\* pattern
NamesNoTime(stamp) ==
    /\ ~(Len(stamp) = 1 /\ stamp[1] \in DateWords)
    /\ ~HasPart(stamp, {"hour", "hr", "minute", "min", "yesterday", "day"})

\* C20: for an element with a title of at least 5 characters and a usable
\* link an article is produced whatever its timestamps hold and whatever the
\* day of the wall clock; where no stamp names a time, the article carries
\* the current time.
C20_TimestampNeverDiscardsArticle ==
    (ParserCalled({"parse_headlines"}) /\ Len(calledArg.page.rows) = 1
       /\ HasTitleAndLink(calledArg.page.rows[1]))
    => /\ callResult[1].raised = ""
       /\ Len(callResult[1].value) = 1
       /\ (\A i \in DOMAIN calledArg.page.rows[1].stamps :
              NamesNoTime(calledArg.page.rows[1].stamps[i]))
          => callResult[1].value[1].timestamp = [on |-> "now", day |-> calledArg.today]

\* the first sequence of a list of sequences that is not empty, << >> where
\* all are
FirstNonEmpty(seqs) ==
    LET hits == {i \in DOMAIN seqs : seqs[i] # << >>}
    IN IF hits = {} THEN << >>
       ELSE seqs[CHOOSE i \in hits : \A j \in hits : i <= j]

\* the rows each strategy of a locator produces on a document, in the order
\* of the strategies
StrategyRows(fn, doc) ==
    CASE fn = "_find_instrument_rows" -> <<find_instrument_rows(doc)>>
      [] fn = "_find_etf_rows" ->
            <<PanelRows(doc),
              Concat([i \in DOMAIN ClassTables(doc) |-> ClassTables(doc)[i].rows]),
              SelectorRows(doc), SelectSeq(AllRows(doc), IsEtfSymbolRow)>>
      [] fn = "_find_derivatives_rows" ->
            <<PanelRows(doc),
              Concat([i \in DOMAIN ClassTables(doc) |-> ClassTables(doc)[i].rows]),
              SelectorRows(doc), SelectSeq(AllRows(doc), IsDerivSymbolRow)>>
      [] fn = "_find_headline_articles" ->
            <<doc.articles, ClassedElements(doc.classed),
              HeadingParents(doc.headings), SectionContainers(doc.sections),
              Containers(Slice(doc.links, 0, LinkLimit), << >>)>>

LocatorCalled(fns) == calledFn \in fns /\ callResult # << >>

\* C21: a row locator returns the rows of the first strategy, in the order
\* of the strategies, that produces at least one row; a strategy whose
\* container is there but gives no row is passed over, and the result is
\* empty only if no strategy produces a row.
C21_FirstProducingStrategyWins ==
    LocatorCalled(Locators)
    => callResult[1].value = FirstNonEmpty(StrategyRows(calledFn, calledArg))

\* C21 for the locators of the market panels and of the news
C21_MarketAndNewsLocators ==
    LocatorCalled({"_find_instrument_rows", "_find_headline_articles"})
    => callResult[1].value = FirstNonEmpty(StrategyRows(calledFn, calledArg))

\* C21 for the locators of tables where no container without rows comes
\* before the strategy that produces rows
C21_TableLocatorsWithoutEmptyContainer ==
    (LocatorCalled({"_find_etf_rows", "_find_derivatives_rows"})
       /\ (calledArg.panel => PanelRows(calledArg) # << >>)
       /\ (PanelRows(calledArg) = << >> /\ ClassTables(calledArg) # << >>
             => \E i \in DOMAIN ClassTables(calledArg) :
                    ClassTables(calledArg)[i].rows # << >>))
    => callResult[1].value = FirstNonEmpty(StrategyRows(calledFn, calledArg))

\* the cells of a row that hold a percent sign
PercentCells(row) == {i \in DOMAIN row.cells : Contains(row.cells[i], "%")}

\* the number of the percent cell closest to the end of the row, None where
\* no cell holds a percent sign
LastPercentCell(row) ==
    IF PercentCells(row) = {} THEN None
    ELSE ParseFloat(Remove(Strip(
             row.cells[CHOOSE i \in PercentCells(row) :
                          \A j \in PercentCells(row) : i >= j]), "%"))

\* a parser has made one record of a page of one row
OneRecordOfOneRow(fns) ==
    /\ ParserCalled(fns)
    /\ Len(calledArg.page.rows) = 1
    /\ Len(callResult[1].value) = 1

\* C22: in every market domain the pct_change of a record is the number of
\* the cell of its row that holds a percent sign and is closest to the end
\* of the row; a cell without percent sign is never taken, so that a row
\* without percent cell gives a record without pct_change.
C22_PercentChangeIsLastPercentCell ==
    OneRecordOfOneRow(MarketParsers)
    => callResult[1].value[1].pct_change = LastPercentCell(calledArg.page.rows[1])

\* C22 for parse_derivatives
C22_Derivatives ==
    OneRecordOfOneRow({"parse_derivatives"})
    => callResult[1].value[1].pct_change = LastPercentCell(calledArg.page.rows[1])

\* C22 for the parsers of markets.py other than parse_indexes, on rows whose
\* last cell holds a percent sign
C22_LastCellIsPercent ==
    (OneRecordOfOneRow(MarketParsers \ {"parse_indexes"})
       /\ Len(calledArg.page.rows[1].cells) \in PercentCells(calledArg.page.rows[1]))
    => callResult[1].value[1].pct_change = LastPercentCell(calledArg.page.rows[1])

---------------------------------------------------------------------------
(* Further properties of the fetch client.                                 *)

\* 0.5 s, 1 s and 2 s, in the unit of the model
DefaultDelays == <<1, 2, 4>>

\* C23: within one scrape() call the sleep before retry number k lasts
\* backoff_factor * 2^k: the sleeps are 0.5 s, 1 s and 2 s in that order,
\* one after each answer that was a 5xx or a network error, and none after
\* the answer to the last attempt.
C23_BackoffDoublesFromHalfASecond ==
    \A t \in Tasks :
        /\ Len(call[t].sleeps) = Min(call[t].transient, MAX_RETRIES)
        /\ \A k \in DOMAIN call[t].sleeps : call[t].sleeps[k] = DefaultDelays[k]
        /\ pc[t] = "backoff"
           => wakeAt[t] - DefaultDelays[Len(call[t].sleeps)] \in sentAt[t]..now

\* three retries were made, and the last attempt failed too
C23_Witness ==
    \E t \in Tasks :
        /\ Finished(t)
        /\ call[t].transient = MAX_RETRIES + 1
        /\ call[t].sleeps = DefaultDelays

---------------------------------------------------------------------------
(* Further properties of the extraction engine.                            *)

MacroParsers == {"parse_macro_indicators", "parse_country_macro"}

\* the indicators a macro parser has returned
Emitted ==
    IF calledFn = "parse_country_macro" THEN Range(callResult[1].value)
    ELSE UNION {Range(callResult[1].value[code]) : code \in CountryCodes}

\* a name that the alias table maps to itself
IsCanonical(name) == clean_indicator_name(name) = name

\* C24: a macro parser returns, on the path of the table of a country and on
\* the path of the matrix, indicators whose names are canonical, that is,
\* names the alias table maps to themselves: "cpi inflation" is emitted as
\* "Inflation Rate".
C24_IndicatorNamesAreCanonical ==
    (callResult # << >> /\ calledFn \in MacroParsers)
    => /\ callResult[1].raised = ""
       /\ \A indicator \in Emitted : IsCanonical(indicator.indicator_name)

\* C24 for the calls that return: the names are canonical
C24_ReturnedNamesAreCanonical ==
    (callResult # << >> /\ calledFn \in MacroParsers /\ callResult[1].raised = "")
    => \A indicator \in Emitted : IsCanonical(indicator.indicator_name)

\* C24 on the path of the table of a country
C24_CountryTableNamesAreCanonical ==
    (callResult # << >> /\ calledFn = "parse_country_macro"
       /\ callResult[1].raised = "")
    => \A indicator \in Emitted : IsCanonical(indicator.indicator_name)

\* the codes of the entries of countries_to_parse whose name or code the
\* text is
NamedCodes(country_text) ==
    {countries_to_parse[i][2] : i \in {j \in DOMAIN countries_to_parse :
        \/ Lower(Strip(country_text)) = Lower(countries_to_parse[j][1])
        \/ Lower(Strip(country_text)) = Lower(countries_to_parse[j][2])}}

\* the document holds one table, a matrix of a header row and one row, of
\* which the strategy of the tables of the countries makes no indicator
MatrixOfOneRow(page) ==
    /\ page.panel
    /\ Len(page.rows) = 2
    /\ Len(page.rows[1]) = 3
    /\ Len(page.rows[2]) = 3
    /\ \A i \in DOMAIN countries_to_parse :
           LET table == find_macro_table(page, countries_to_parse[i][1])
           IN table # None
              => country_rows(table[1], countries_to_parse[i][2], << >>) = << >>

\* C29: in the matrix fallback of parse_macro_indicators the indicators of a
\* row are filed under the code of the country its first cell names, and
\* under no other code; a row whose first cell names none of the countries
\* gives no indicator; every indicator of result[C] has country C.
C29_MatrixRowIsFiledUnderItsCountry ==
    (callResult # << >> /\ calledFn = "parse_macro_indicators"
       /\ MatrixOfOneRow(calledArg.page))
    => /\ callResult[1].raised = ""
       /\ \A code \in CountryCodes :
             /\ \A i \in DOMAIN callResult[1].value[code] :
                    callResult[1].value[code][i].country = code
             /\ callResult[1].value[code] # << >>
                => code \in NamedCodes(calledArg.page.rows[2][1])

\* C29 for the calls that return
C29_ReturnedMatrixRow ==
    (callResult # << >> /\ calledFn = "parse_macro_indicators"
       /\ MatrixOfOneRow(calledArg.page) /\ callResult[1].raised = "")
    => \A code \in CountryCodes :
           /\ \A i \in DOMAIN callResult[1].value[code] :
                  callResult[1].value[code][i].country = code
           /\ callResult[1].value[code] # << >>
              => code \in NamedCodes(calledArg.page.rows[2][1])

\* every indicator of result[C] has country C
C29_CountryOfIndicatorIsItsKey ==
    (callResult # << >> /\ calledFn = "parse_macro_indicators"
       /\ callResult[1].raised = "")
    => \A code \in CountryCodes : \A i \in DOMAIN callResult[1].value[code] :
           callResult[1].value[code][i].country = code

\* C29 for the rows whose first cell is the code of a country, or holds
\* neither the name nor the code of one
C29_CodeRowsAndForeignRows ==
    (callResult # << >> /\ calledFn = "parse_macro_indicators"
       /\ MatrixOfOneRow(calledArg.page) /\ callResult[1].raised = ""
       /\ (\/ MatchedCountry(Strip(calledArg.page.rows[2][1])) = 0
           \/ Strip(calledArg.page.rows[2][1]) \in CountryCodes))
    => \A code \in CountryCodes :
           callResult[1].value[code] # << >>
           => code \in NamedCodes(calledArg.page.rows[2][1])

\* task t sends a request in the step: the robots.txt request of
\* parse_robots_txt, or a GET of _request_with_retry
SendsRequest(t) == pc'[t] \in {"robots", "get"} /\ pc'[t] # pc[t]

\* the request task t sent last before the step went to the host of the one
\* it sends in the step
SameHostAsLast(t) == sentAt[t] > 0 /\ call[t].url.host = call'[t].url.host

\* C26: two consecutive requests of the client to one host, the robots.txt
\* request and the attempts of a retried GET among them, are sent at least
\* RATE_LIMIT_DELAY apart.
C26_EveryRequestIsSpaced ==
    [][\A t \in Tasks :
          (SendsRequest(t) /\ SameHostAsLast(t))
          => now - sentAt[t] >= RATE_LIMIT_DELAY]_vars

\* C26 for the first GET of a call that follows the only GET of the call
\* before, without a robots.txt request in between
C26_FirstGetsAreSpaced ==
    [][\A t \in Tasks :
          (SendsRequest(t) /\ SameHostAsLast(t) /\ pc[t] \in {"idle", "rl_sleep"}
             /\ call'[t].robotsReq = 0
             /\ sentAt[t] = (IF pc[t] = "idle" THEN call[t].firstGet
                             ELSE prev[t].firstGet))
          => now - sentAt[t] >= RATE_LIMIT_DELAY]_vars

\* C27: tasks that fetch URLs of one host at the same time, while the
\* robots cache has no valid entry for it, send one robots.txt request for
\* the host between them, and all decide on the policy of that request.
C27_OneRobotsRequestPerHost ==
    /\ \A h \in Hosts : robotsReqs[h] <= 1
    /\ \A t, u \in Tasks :
          (call[t].policy /\ call[u].policy /\ call[t].url.host = call[u].url.host)
          => /\ call[t].origin = call[u].origin
             /\ call[t].disallowed = call[u].disallowed

---------------------------------------------------------------------------
(* Properties of the client as a context manager.                          *)

\* a scrape() call of task t is made in this step
ScrapeCalled(t) == nCalls'[t] # nCalls[t]

\* C30: scrape() sends requests only between __aenter__ and __aexit__: a request
\* or a sleep of scrape() is pending only while the client is entered, and a
\* scrape() call made while it is not entered raises ScraperError at once, with no
\* robots.txt request, no call of RateLimiter.wait, no GET, and with the robots
\* cache and the rate limiter's timestamps as they were
C30_ScrapeOutsideContextFails ==
    /\ [](\A t \in Tasks : pc[t] # "idle" => clientOpen)
    /\ [][\A t \in Tasks :
            (ScrapeCalled(t) /\ ~ clientOpen)
            => /\ call'[t].outcome = NotInitialized
               /\ call'[t].robotsReq = 0
               /\ call'[t].rlWaits = 0
               /\ call'[t].gets = 0
               /\ ~ call'[t].policy
               /\ pc'[t] = "idle"
               /\ UNCHANGED <<cache, robotsReqs, lastRequest, leaveLog, sentAt, wakeAt>>]_vars

\* a call made after the __aexit__ of a context in which a page was requested
C30_Witness ==
    /\ ~ clientOpen
    /\ call[Caller].outcome = NotInitialized
    /\ nCalls[Caller] = 2
    /\ \E h \in Hosts : robotsReqs[h] > 0 /\ lastRequest[h] > 0

---------------------------------------------------------------------------
(* Properties of scrape_with_fallback.                                     *)

\* the static fetch of the present call of scrape_with_fallback has ended with
\* RobotsTxtError
StaticFetchBlocked == fallback # "static" /\ call[Caller].outcome = RobotsBlocked

\* C28: scrape_with_fallback does not load in the browser a URL whose static
\* fetch failed because robots.txt disallows its path: the call raises, and
\* page.goto is not called with the URL
C28_BlockedUrlIsNotLoaded ==
    StaticFetchBlocked
    => /\ call[Caller].url \notin loaded
       /\ fallback \in {"playwright", "raised"}

\* the static fetch itself sends no GET for a URL that robots.txt disallows
C28_StaticFetchSendsNoGet ==
    StaticFetchBlocked => call[Caller].gets = 0

---------------------------------------------------------------------------
(* Properties of run_pipeline on the fetch client.                         *)

\* run_pipeline has returned its output, and no task and no call is left
RunReturned ==
    /\ stage = "done"
    /\ exitStatus # << >>
    /\ \A k \in MarketSet : marketTasks[k] = "done"
    /\ \A t \in Tasks : pc[t] = "idle"

====
